---- MODULE Spec2Model ----
(***************************************************************************)
(* State-machine model of the restaurant ordering screens.                 *)
(*                                                                         *)
(*   RestaurantDetailScreen : the order cart and order placement           *)
(*                            (specification SpecDetail)                   *)
(*   AddRestaurantScreen,                                                  *)
(*   EditRestaurantScreen   : the restaurant draft, its validation, the    *)
(*                            map picker and the persistence calls         *)
(*                            (specification SpecForm; SpecLocation is the *)
(*                            same screens seen from the location controls *)
(*                            getCurrentLocation and the map picker)       *)
(*   formatAddress and the                                                 *)
(*   coordinate tests       : applied as functions to bounded arguments    *)
(*                            (specification SpecFunctions)                *)
(*   utils/restaurantTypes  : the table of restaurant types and the calls  *)
(*                            of its functions, in any order               *)
(*                            (specification SpecRegistry)                 *)
(*                                                                         *)
(* Handlers are modelled as code: a handler can be invoked whenever its    *)
(* screen is mounted, and the only guards are the conditions its own code  *)
(* evaluates.  React state updaters (setCart(prev => ...)) are pure        *)
(* functions of the previous state and are modelled as operators.          *)
(* Conditional rendering of a button is not a guard of its handler; a      *)
(* disabled prop and a modal dialog or Modal over the form are guards of   *)
(* the form screens' buttons.  A promise settles whether or not the screen *)
(* that awaits it is still mounted, and the continuation then runs as      *)
(* written.                                                                *)
(***************************************************************************)
EXTENDS Integers, Sequences, FiniteSets, Bags, TLC

VARIABLES
    cart,       \* RestaurantDetailScreen: useState([]) - sequence of cart lines
    user,       \* RestaurantDetailScreen: useAuth().user (Null when signed out)
    inflight,   \* bag of orderData whose placeOrder promise has not settled
    error,      \* "none", or the exception that tore the detail screen down
    lastOp,     \* history: the handler step that produced the current state
    before,     \* history: <<a, b>> when the line of a was created before
                \* the line of b (both lines still in the cart)
    screen,     \* which form screen is mounted: "add" or "edit"
    restaurant, \* EditRestaurantScreen: route.params.restaurant
    formData,   \* Add/EditRestaurantScreen: useState({...}) - the draft
    imageUri,   \* Add/EditRestaurantScreen: useState(null | restaurant.image)
    loading,    \* Add/EditRestaurantScreen: useState(false)
    calls,      \* persistence calls (addRestaurant, uploadImage,
                \* updateRestaurant) whose promise has not settled
    dialog,     \* the Alert with button callbacks that is on screen
    showMapPicker,  \* AddRestaurantScreen: useState(false)
    tempLocation,   \* AddRestaurantScreen: useState(null), <<>> for null
    lookups,    \* reverseGeocodeAsync calls of handleMapPickerSelect whose
                \* promise has not settled, each with what its closure holds
    locationLoading, \* Add/EditRestaurantScreen: useState(false)
    gps,        \* the getCurrentLocation invocation in flight: the await it
                \* is suspended at and the coordinates its closure holds
    mounted,    \* the screen is on the navigation stack (FALSE once
                \* navigation.goBack() removed it)
    evaluation, \* a pure function applied to an argument: its name, the
                \* argument and, once evaluated, the result,
    RESTAURANT_TYPES    \* restaurantTypes.js: the exported array of
                \* restaurant types, as the module's functions find it

detailVars == <<cart, user, inflight, error, before>>
formVars == <<screen, restaurant, formData, imageUri, loading, calls, dialog,
              showMapPicker, tempLocation, lookups>>
locationVars == <<locationLoading, gps>>
vars == <<cart, user, inflight, error, before, lastOp, screen, restaurant,
          formData, imageUri, loading, calls, dialog, showMapPicker,
          tempLocation, lookups, locationLoading, gps, mounted,
          evaluation, RESTAURANT_TYPES>>

---------------------------------------------------------------------------
(* Bounds of the model.                                                    *)

\* total quantity the cart may hold (guards the add handler)
MaxQty == 3
\* placeOrder calls that may be awaiting their result at once
MaxInFlight == 2
\* reverse-geocoding calls of the map picker that may be pending at once
MaxLookups == 1
\* restaurants in an array handed to a function of restaurantTypes.js
MaxRestaurants == 2

---------------------------------------------------------------------------
(* Values.                                                                 *)

\* JavaScript null (no signed-in user)
Null == "null"

\* The signed-in user's address (user.address)
UserAddress == "addr-of-u1"

\* The signed-in user object, reduced to the fields the screen reads
SignedIn == "u1"

\* restaurant.menu of route.params: an optional field (calories) is the
\* empty sequence when absent and <<n>> when present.
Menu ==
    << [id |-> "m1", price |-> 3, calories |-> <<2>>, isAvailable |-> TRUE],
       [id |-> "m2", price |-> 5, calories |-> <<>>,  isAvailable |-> TRUE],
       [id |-> "m3", price |-> 7, calories |-> <<4>>, isAvailable |-> FALSE] >>

MenuItems == {Menu[i] : i \in DOMAIN Menu}

ItemIds == {Menu[i].id : i \in DOMAIN Menu}

ItemById(itemId) == CHOOSE m \in MenuItems : m.id = itemId

\* JavaScript `x || 0` on an optional number
OrZero(x) == IF x = <<>> THEN 0 ELSE x[1]

---------------------------------------------------------------------------
(* Cart updaters and totals (pure functions of the cart).                  *)

\* Array.prototype.find by id: index of the first line with that id, 0 for
\* undefined
FindLine(prev, itemId) ==
    IF \E i \in DOMAIN prev : prev[i].id = itemId
    THEN CHOOSE i \in DOMAIN prev :
            /\ prev[i].id = itemId
            /\ \A j \in DOMAIN prev : prev[j].id = itemId => i <= j
    ELSE 0

\* Array.prototype.filter
RECURSIVE FilterOut(_, _)
FilterOut(prev, itemId) ==
    IF prev = <<>> THEN <<>>
    ELSE IF Head(prev).id # itemId
         THEN <<Head(prev)>> \o FilterOut(Tail(prev), itemId)
         ELSE FilterOut(Tail(prev), itemId)

\* { ...item, quantity: 1 }
NewLine(item) ==
    [id |-> item.id, price |-> item.price, calories |-> item.calories,
     isAvailable |-> item.isAvailable, quantity |-> 1]

addToCart_Prepend(prev, item) ==
    IF FindLine(prev, item.id) # 0
    THEN [i \in DOMAIN prev |->
            IF prev[i].id = item.id
            THEN [prev[i] EXCEPT !.quantity = @ + 1]
            ELSE prev[i]]
    ELSE <<NewLine(item)>> \o prev

addToCart_AlwaysAppend(prev, item) == Append(prev, NewLine(item))

\* the updater addToCart hands to setCart
addToCart(prev, item) ==
    IF FindLine(prev, item.id) # 0
    THEN [i \in DOMAIN prev |->
            IF prev[i].id = item.id
            THEN [prev[i] EXCEPT !.quantity = @ + 1]
            ELSE prev[i]]
    ELSE Append(prev, NewLine(item))

\* existingItem.quantity on an undefined existingItem raises a TypeError
removeFromCartThrows(prev, itemId) == FindLine(prev, itemId) = 0

removeFromCart_DropLine(prev, itemId) == FilterOut(prev, itemId)

removeFromCart_AlwaysDecrement(prev, itemId) ==
    [i \in DOMAIN prev |->
        IF prev[i].id = itemId
        THEN [prev[i] EXCEPT !.quantity = @ - 1]
        ELSE prev[i]]

\* the updater removeFromCart hands to setCart, where it does not throw
removeFromCart(prev, itemId) ==
    IF prev[FindLine(prev, itemId)].quantity = 1
    THEN FilterOut(prev, itemId)
    ELSE [i \in DOMAIN prev |->
            IF prev[i].id = itemId
            THEN [prev[i] EXCEPT !.quantity = @ - 1]
            ELSE prev[i]]

\* Array.prototype.reduce from the left, initial value 0
RECURSIVE ReducePrice(_, _)
ReducePrice(total, c) ==
    IF c = <<>> THEN total
    ELSE ReducePrice(total + Head(c).price * Head(c).quantity, Tail(c))

RECURSIVE ReduceCalories(_, _)
ReduceCalories(total, c) ==
    IF c = <<>> THEN total
    ELSE ReduceCalories(total + OrZero(Head(c).calories) * Head(c).quantity,
                        Tail(c))

getTotalPrice_IgnoreQuantity(c) ==
    ReducePrice(0, [i \in DOMAIN c |-> [c[i] EXCEPT !.quantity = 1]])

getTotalPrice(c) == ReducePrice(0, c)

getTotalCalories(c) == ReduceCalories(0, c)

\* number of units in the cart (the quantity the MaxQty bound caps)
TotalQuantity(c) ==
    ReducePrice(0, [i \in DOMAIN c |-> [c[i] EXCEPT !.price = 1]])

---------------------------------------------------------------------------
(* RestaurantDetailScreen: handlers.                                       *)

Op(op, id, outcome, alert) ==
    [op |-> op, id |-> id, outcome |-> outcome, alert |-> alert]

\* ids of the lines of a cart
LineIds(c) == {c[i].id : i \in DOMAIN c}

InitDetail ==
    /\ mounted = TRUE
    /\ cart = <<>>
    /\ user \in {Null, SignedIn}
    /\ inflight = EmptyBag
    /\ error = "none"
    /\ lastOp = Op("init", "", "", "")
    /\ before = {}

PressAddEnabled_Always(item) == TRUE

\* onPress={() => item.isAvailable && addToCart(item)}, disabled={!item.isAvailable}
PressAddEnabled(item) == item.isAvailable

\* The "+" button of a menu item
PressAdd(item) ==
    /\ mounted
    /\ error = "none"
    /\ IF PressAddEnabled(item)
       THEN /\ TotalQuantity(cart) < MaxQty
            /\ cart' = addToCart(cart, item)
            /\ lastOp' = Op("addToCart", item.id,
                            IF FindLine(cart, item.id) # 0
                            THEN "incremented" ELSE "new", "")
            /\ before' = IF item.id \in LineIds(cart)
                         THEN before
                         ELSE before \cup {<<a, item.id>> : a \in LineIds(cart)}
       ELSE /\ lastOp' = Op("addToCart", item.id, "unavailable", "")
            /\ UNCHANGED <<cart, before>>
    /\ UNCHANGED <<user, inflight, error>>
    /\ UNCHANGED <<formVars, locationVars, mounted, evaluation,
                   RESTAURANT_TYPES>>

\* The "-" button of a menu item: removeFromCart(item.id)
PressRemove(itemId) ==
    /\ mounted
    /\ error = "none"
    /\ IF removeFromCartThrows(cart, itemId)
       THEN /\ error' = "TypeError"
            /\ lastOp' = Op("removeFromCart", itemId, "TypeError", "")
            /\ UNCHANGED <<cart, before>>
       ELSE /\ cart' = removeFromCart(cart, itemId)
            /\ lastOp' = Op("removeFromCart", itemId,
                            IF cart[FindLine(cart, itemId)].quantity = 1
                            THEN "removed" ELSE "decremented", "")
            /\ before' = {p \in before :
                             /\ p[1] \in LineIds(cart')
                             /\ p[2] \in LineIds(cart')}
            /\ UNCHANGED error
    /\ UNCHANGED <<user, inflight>>
    /\ UNCHANGED <<formVars, locationVars, mounted, evaluation,
                   RESTAURANT_TYPES>>

\* the orderData object handlePlaceOrder builds
OrderData(u, c) ==
    [items |-> c,
     totalPrice |-> getTotalPrice(c),
     totalCalories |-> getTotalCalories(c),
     deliveryAddress |-> UserAddress]

handlePlaceOrderBranch_NoEmptyCheck(u, c) ==
    IF u = Null THEN "login" ELSE "called"

\* the two early returns of handlePlaceOrder
handlePlaceOrderBranch(u, c) ==
    IF u = Null THEN "login"
    ELSE IF Len(c) = 0 THEN "emptyCart"
    ELSE "called"

\* handlePlaceOrder up to its await
HandlePlaceOrder ==
    /\ mounted
    /\ error = "none"
    /\ LET branch == handlePlaceOrderBranch(user, cart) IN
       /\ IF branch = "called"
          THEN /\ BagCardinality(inflight) < MaxInFlight
               /\ inflight' = inflight (+) SetToBag({OrderData(user, cart)})
               /\ lastOp' = Op("handlePlaceOrder", "", "called", "")
          ELSE /\ lastOp' = Op("handlePlaceOrder", "", branch,
                               IF branch = "emptyCart" THEN "Empty Cart" ELSE "")
               /\ UNCHANGED inflight
    /\ UNCHANGED <<cart, user, error, before>>
    /\ UNCHANGED <<formVars, locationVars, mounted, evaluation,
                   RESTAURANT_TYPES>>

placeOrderResultCart_AlwaysReset(prev, outcome) == <<>>

\* the cart after handlePlaceOrder's continuation ran on `outcome`
placeOrderResultCart(prev, outcome) ==
    IF outcome = "success" THEN <<>> ELSE prev

\* a placeOrder promise settles and handlePlaceOrder resumes
PlaceOrderSettles(o, outcome) ==
    /\ error = "none"
    /\ BagIn(o, inflight)
    /\ inflight' = inflight (-) SetToBag({o})
    /\ cart' = placeOrderResultCart(cart, outcome)
    /\ before' = {p \in before :
                     /\ p[1] \in LineIds(cart')
                     /\ p[2] \in LineIds(cart')}
    /\ lastOp' = Op("placeOrderResult", "", outcome,
                    CASE outcome = "success" -> "Order Placed"
                      [] outcome = "failure" -> "Error"
                      [] OTHER -> "")
    /\ UNCHANGED <<user, error>>
    /\ UNCHANGED <<formVars, locationVars, mounted, evaluation,
                   RESTAURANT_TYPES>>

\* the header's back button: navigation.goBack() removes the screen, and
\* nothing in the component cancels the promises it is waiting for
GoBackDetail ==
    /\ mounted
    /\ error = "none"
    /\ mounted' = FALSE
    /\ lastOp' = Op("goBack", "", "", "")
    /\ UNCHANGED detailVars
    /\ UNCHANGED <<formVars, locationVars, evaluation, RESTAURANT_TYPES>>

NextDetail ==
    \/ GoBackDetail
    \/ \E item \in MenuItems : PressAdd(item)
    \/ \E itemId \in ItemIds : PressRemove(itemId)
    \/ HandlePlaceOrder
    \/ \E o \in BagToSet(inflight) :
          \E outcome \in {"success", "failure", "rejected"} :
             PlaceOrderSettles(o, outcome)

---------------------------------------------------------------------------
(* Strings.  A JavaScript string is the sequence of its characters, each   *)
(* a one-character string.                                                 *)

\* the characters \s matches among those the model uses
IsSpace(ch) == ch = " "

\* the character class [A-Z0-9]
IsUpperOrDigit(ch) ==
    ch \in {"A", "B", "C", "D", "E", "F", "G", "H", "I", "J", "K", "L", "M",
            "N", "O", "P", "Q", "R", "S", "T", "U", "V", "W", "X", "Y", "Z",
            "0", "1", "2", "3", "4", "5", "6", "7", "8", "9"}

\* the longest prefix of s made of characters of a class, as a length
RECURSIVE SpaceRun(_)
SpaceRun(s) ==
    IF s # <<>> /\ IsSpace(Head(s)) THEN 1 + SpaceRun(Tail(s)) ELSE 0

RECURSIVE UpperOrDigitRun(_)
UpperOrDigitRun(s) ==
    IF s # <<>> /\ IsUpperOrDigit(Head(s))
    THEN 1 + UpperOrDigitRun(Tail(s)) ELSE 0

\* s without its first n characters
Drop(s, n) == SubSeq(s, n + 1, Len(s))

\* String.prototype.trimStart / trimEnd / trim
LTrim(s) == Drop(s, SpaceRun(s))

RECURSIVE RTrim(_)
RTrim(s) ==
    IF s # <<>> /\ IsSpace(s[Len(s)]) THEN RTrim(SubSeq(s, 1, Len(s) - 1))
    ELSE s

Trim(s) == RTrim(LTrim(s))

\* String.prototype.includes for a single character
Includes(s, ch) == \E i \in DOMAIN s : s[i] = ch

\* Array.prototype.join(', ')
RECURSIVE Join(_)
Join(parts) ==
    IF parts = <<>> THEN <<>>
    ELSE IF Len(parts) = 1 THEN parts[1]
    ELSE parts[1] \o <<",", " ">> \o Join(Tail(parts))

---------------------------------------------------------------------------
(* AddRestaurantScreen: formatAddress.                                     *)
(* A geocoding result is a record of strings; an absent (null, undefined)  *)
(* field is the empty string, which formatAddress cannot tell from it:     *)
(* every field is tested for truthiness before it is compared.             *)

\* the match of /[A-Z0-9]{4}\+[A-Z0-9]{2,}\s*,?\s*/ at the start of s, as a
\* length (0: no match)
PlusCodeMatch(s) ==
    IF /\ Len(s) >= 7
       /\ \A i \in 1..4 : IsUpperOrDigit(s[i])
       /\ s[5] = "+"
       /\ UpperOrDigitRun(Drop(s, 5)) >= 2
    THEN LET afterCode   == 5 + UpperOrDigitRun(Drop(s, 5))
             afterSpaces == afterCode + SpaceRun(Drop(s, afterCode))
             afterComma  == IF afterSpaces < Len(s) /\ s[afterSpaces + 1] = ","
                            THEN afterSpaces + 1 ELSE afterSpaces
         IN  afterComma + SpaceRun(Drop(s, afterComma))
    ELSE 0

\* .replace(/[A-Z0-9]{4}\+[A-Z0-9]{2,}\s*,?\s*/g, '')
RECURSIVE StripPlusCodes(_)
StripPlusCodes(s) ==
    IF s = <<>> THEN <<>>
    ELSE IF PlusCodeMatch(s) > 0 THEN StripPlusCodes(Drop(s, PlusCodeMatch(s)))
    ELSE <<Head(s)>> \o StripPlusCodes(Tail(s))

\* the match of /,\s*,/ at the start of s, as a length (0: no match)
CommaPairMatch(s) ==
    IF /\ s # <<>>
       /\ Head(s) = ","
       /\ 1 + SpaceRun(Tail(s)) < Len(s)
       /\ s[2 + SpaceRun(Tail(s))] = ","
    THEN 2 + SpaceRun(Tail(s))
    ELSE 0

\* .replace(/,\s*,/g, ',')
RECURSIVE CollapseCommas(_)
CollapseCommas(s) ==
    IF s = <<>> THEN <<>>
    ELSE IF CommaPairMatch(s) > 0
         THEN <<",">> \o CollapseCommas(Drop(s, CommaPairMatch(s)))
    ELSE <<Head(s)>> \o CollapseCommas(Tail(s))

\* .replace(/^\s*,\s*/, '')
StripLeadingComma(s) ==
    IF SpaceRun(s) < Len(s) /\ s[SpaceRun(s) + 1] = ","
    THEN LTrim(Drop(s, SpaceRun(s) + 1))
    ELSE s

\* .replace(/\s*,\s*$/, '')
StripTrailingComma(s) ==
    IF RTrim(s) # <<>> /\ RTrim(s)[Len(RTrim(s))] = ","
    THEN RTrim(SubSeq(RTrim(s), 1, Len(RTrim(s)) - 1))
    ELSE s

\* the chain of replacements applied to formattedAddress and to the result
CleanCommas(s) == Trim(StripTrailingComma(StripLeadingComma(CollapseCommas(s))))

\* step 1: the condition under which name is pushed
nameAppended(a) ==
    /\ a.name # <<>>
    /\ ~Includes(a.name, "+")
    /\ a.name # a.city
    /\ a.name # a.subregion

\* steps 1 to 7: the parts pushed to addressParts
AddressParts(a) ==
    (IF nameAppended(a) THEN <<a.name>> ELSE <<>>)
    \o (IF a.streetNumber # <<>> /\ a.street # <<>>
        THEN <<a.streetNumber \o <<" ">> \o a.street>>
        ELSE IF a.street # <<>> /\ a.street # a.name
        THEN <<a.street>> ELSE <<>>)
    \o (IF a.subregion # <<>> /\ a.subregion # a.city
           /\ a.subregion # a.region
        THEN <<a.subregion>> ELSE <<>>)
    \o (IF a.district # <<>> /\ a.district # a.city
           /\ a.district # a.subregion
        THEN <<a.district>> ELSE <<>>)
    \o (IF a.city # <<>> THEN <<a.city>> ELSE <<>>)
    \o (IF a.region # <<>> /\ a.region # a.city /\ a.region # a.district
        THEN <<a.region>> ELSE <<>>)
    \o (IF a.country # <<>> THEN <<a.country>> ELSE <<>>)

\* the literal 'Location detected'
LocationDetected ==
    <<"L", "o", "c", "a", "t", "i", "o", "n", " ",
      "d", "e", "t", "e", "c", "t", "e", "d">>

\* cleanedAddress: formattedAddress after the clean-up of the fallback
cleanedAddress(formattedAddress) ==
    Trim(StripTrailingComma(StripLeadingComma(
        CollapseCommas(StripPlusCodes(formattedAddress)))))

formatAddress_PreferCleanedWhenEqual(a) ==
    LET parts       == AddressParts(a)
        constructed == Join(parts)
        cleaned     == cleanedAddress(a.formattedAddress)
        chosen      == IF /\ Len(parts) < 3
                          /\ a.formattedAddress # <<>>
                          /\ Len(cleaned) >= Len(constructed)
                       THEN cleaned ELSE constructed
        final       == CleanCommas(chosen)
    IN  IF final # <<>> THEN final ELSE LocationDetected

\* formatAddress of a geocoding result that is not null
formatAddress(a) ==
    LET parts       == AddressParts(a)
        constructed == Join(parts)
        cleaned     == cleanedAddress(a.formattedAddress)
        chosen      == IF /\ Len(parts) < 3
                          /\ a.formattedAddress # <<>>
                          /\ Len(cleaned) > Len(constructed)
                       THEN cleaned ELSE constructed
        final       == CleanCommas(chosen)
    IN  IF final # <<>> THEN final ELSE LocationDetected

\* formatAddress(addressData): addressData is <<>> for null or undefined,
\* <<a>> for an object
formatAddressOrNull(addressData) ==
    IF addressData = <<>> THEN <<>> ELSE formatAddress(addressData[1])

---------------------------------------------------------------------------
(* Add/EditRestaurantScreen: values.                                       *)
(* A coordinate is an integer number of 1e-7 degrees, so that toFixed(6)   *)
(* has something to round; an optional number is <<>> (null) or <<n>>.     *)

\* 90 and 180 degrees
MaxLatitude == 900000000
MaxLongitude == 1800000000

\* openMapPicker's fallback position 33.6844, 73.0479
DefaultLatitude == 336844000
DefaultLongitude == 730479000

\* parseFloat(x.toFixed(6))
ToFixed6(x) ==
    IF x >= 0 THEN ((x + 5) \div 10) * 10 ELSE -(((-x) + 5) \div 10) * 10

\* JavaScript falsiness of an optional number
Falsy(n) == n = <<>> \/ n[1] = 0

\* what the user types or picks in each field of the form
StrCafe == <<"C", "a", "f", "e">>
StrEmail == <<"e", "@", "b", ".", "c">>
FieldInputs ==
    [name        |-> {<<" ">>, <<" ", "n">>},
     cuisine     |-> {<<"c">>},
     type        |-> {StrCafe},
     description |-> {<<"d">>},
     phone       |-> {<<"1">>},
     email       |-> {<<"e">>, StrEmail},
     address     |-> {<<"s", "t">>}]

\* the positions the user taps in the map picker
MapTaps == {[latitude |-> 246000004, longitude |-> 670000006]}

NoComponents ==
    [name |-> <<>>, streetNumber |-> <<>>, street |-> <<>>, subregion |-> <<>>,
     city |-> <<>>, region |-> <<>>, country |-> <<>>,
     formattedAddress |-> <<>>, district |-> <<>>]

\* the first element of the arrays reverseGeocodeAsync resolves with
GeocodeResults ==
    {[NoComponents EXCEPT !.city = <<"L">>, !.subregion = <<"L">>,
                          !.region = <<"P">>, !.country = <<"K">>]}

\* route.params.restaurant of the edit screen: one restaurant with every
\* field, one stored before restaurants had a type
EditRestaurants ==
    {[id |-> "r1", name |-> <<"n">>, cuisine |-> <<"c">>, type |-> StrCafe,
      description |-> <<"d">>, phone |-> <<"1">>, email |-> StrEmail,
      image |-> "img0",
      location |-> [address |-> <<"s", "t">>, latitude |-> <<246000000>>,
                    longitude |-> <<670000010>>]],
     [id |-> "r2", name |-> <<"n">>, cuisine |-> <<"c">>, type |-> <<>>,
      description |-> <<"d">>, phone |-> <<"1">>, email |-> StrEmail,
      image |-> Null,
      location |-> [address |-> <<"s", "t">>, latitude |-> <<246000000>>,
                    longitude |-> <<670000010>>]]}

NoRestaurant == [id |-> Null]

\* location.coords of the positions getCurrentPositionAsync resolves with:
\* an ordinary position, a position on the equator and a latitude beyond 90
\* degrees
GpsReadings ==
    {[latitude |-> 315204000, longitude |-> 743587000],
     [latitude |-> 0, longitude |-> 743587000],
     [latitude |-> 900000001, longitude |-> 743587000]}

\* the ways getCurrentPositionAsync rejects: error.code, "" for an error
\* without one
PositionErrors == {"E_LOCATION_TIMEOUT", "E_LOCATION_UNAVAILABLE", ""}

NoCoords == [latitude |-> 0, longitude |-> 0]

\* no getCurrentLocation is running
GpsIdle == [stage |-> "idle", coords |-> NoCoords]

NoDialog == [kind |-> "none"]

\* /\S+@\S+\.\S+/.test(email)
EmailMatches(e) ==
    \E i, k \in DOMAIN e :
        /\ e[i] = "@"
        /\ i >= 2
        /\ ~IsSpace(e[i - 1])
        /\ k >= i + 2
        /\ e[k] = "."
        /\ k + 1 <= Len(e)
        /\ ~IsSpace(e[k + 1])
        /\ \A m \in (i + 1)..(k - 1) : ~IsSpace(e[m])

\* the coordinate test at the end of validateForm
CoordinateRejected(latitude, longitude) ==
    \/ Falsy(latitude)
    \/ Falsy(longitude)
    \/ latitude[1] < -MaxLatitude
    \/ latitude[1] > MaxLatitude
    \/ longitude[1] < -MaxLongitude
    \/ longitude[1] > MaxLongitude

\* validateForm of the add screen: the message of its Alert, "ok" for true
validateFormAdd(fd) ==
    IF Trim(fd.name) = <<>> THEN "Please enter restaurant name"
    ELSE IF Trim(fd.cuisine) = <<>> THEN "Please select cuisine type"
    ELSE IF Trim(fd.type) = <<>> THEN "Please select restaurant type"
    ELSE IF Trim(fd.description) = <<>>
         THEN "Please enter restaurant description"
    ELSE IF Trim(fd.phone) = <<>> THEN "Please enter phone number"
    ELSE IF Trim(fd.email) = <<>> THEN "Please enter email address"
    ELSE IF ~EmailMatches(fd.email) THEN "Please enter a valid email address"
    ELSE IF Trim(fd.address) = <<>> THEN "Please enter restaurant address"
    ELSE IF CoordinateRejected(fd.latitude, fd.longitude)
         THEN "Please set a valid restaurant location using GPS or map picker"
    ELSE "ok"

\* validateForm of the edit screen
validateFormEdit(fd) ==
    IF Trim(fd.name) = <<>> THEN "Please enter restaurant name"
    ELSE IF Trim(fd.cuisine) = <<>> THEN "Please select cuisine type"
    ELSE IF Trim(fd.description) = <<>>
         THEN "Please enter restaurant description"
    ELSE IF Trim(fd.phone) = <<>> THEN "Please enter phone number"
    ELSE IF Trim(fd.email) = <<>> THEN "Please enter email address"
    ELSE IF ~EmailMatches(fd.email) THEN "Please enter a valid email address"
    ELSE IF Trim(fd.address) = <<>> THEN "Please enter restaurant address"
    ELSE IF CoordinateRejected(fd.latitude, fd.longitude)
         THEN "Please set a valid restaurant location"
    ELSE "ok"

\* restaurantData of the add screen's handleSubmit
RestaurantData(fd) ==
    [name |-> Trim(fd.name), cuisine |-> fd.cuisine, type |-> fd.type,
     description |-> Trim(fd.description), phone |-> Trim(fd.phone),
     email |-> Trim(fd.email),
     location |-> [address |-> Trim(fd.address), latitude |-> fd.latitude,
                   longitude |-> fd.longitude]]

\* updateData of the edit screen's handleSubmit, before any image is added
UpdateData(fd) ==
    [name |-> Trim(fd.name), cuisine |-> fd.cuisine,
     description |-> Trim(fd.description), phone |-> Trim(fd.phone),
     email |-> Trim(fd.email),
     location |-> [address |-> Trim(fd.address), latitude |-> fd.latitude,
                   longitude |-> fd.longitude]]

\* the add screen's initial (and reset) formData
EmptyFormAdd ==
    [name |-> <<>>, cuisine |-> <<>>, type |-> <<>>, description |-> <<>>,
     phone |-> <<>>, email |-> <<>>, address |-> <<>>,
     latitude |-> <<>>, longitude |-> <<>>]

\* the edit screen's initial formData
InitialFormEdit(r) ==
    [name |-> r.name, cuisine |-> r.cuisine, description |-> r.description,
     phone |-> r.phone, email |-> r.email, address |-> r.location.address,
     latitude |-> IF Falsy(r.location.latitude) THEN <<>>
                  ELSE r.location.latitude,
     longitude |-> IF Falsy(r.location.longitude) THEN <<>>
                   ELSE r.location.longitude]

---------------------------------------------------------------------------
(* Add/EditRestaurantScreen: handlers.  A control with disabled={...} is   *)
(* not pressed while disabled, and nothing of the screen is pressed while  *)
(* an Alert with button callbacks or the map picker Modal covers it.       *)

InitForm ==
    /\ screen \in {"add", "edit"}
    /\ restaurant \in IF screen = "add" THEN {NoRestaurant} ELSE EditRestaurants
    /\ formData = IF screen = "add" THEN EmptyFormAdd
                  ELSE InitialFormEdit(restaurant)
    /\ imageUri = IF screen = "add" THEN Null ELSE restaurant.image
    /\ loading = FALSE
    /\ calls = {}
    /\ dialog = NoDialog
    /\ showMapPicker = FALSE
    /\ tempLocation = <<>>
    /\ lookups = {}
    /\ locationLoading = FALSE
    /\ gps = GpsIdle
    /\ mounted = TRUE

\* the form screen's controls can be pressed
FormReachable == mounted /\ dialog = NoDialog /\ ~showMapPicker

\* the controls of the map picker Modal can be pressed
MapPickerReachable == mounted /\ dialog = NoDialog /\ showMapPicker

\* the fields the screen's form has an input or chips for
FormFields ==
    IF screen = "add"
    THEN {"name", "cuisine", "type", "description", "phone", "email", "address"}
    ELSE {"name", "cuisine", "description", "phone", "email", "address"}

\* handleInputChange(field, value)
HandleInputChange(field, value) ==
    /\ FormReachable
    /\ field \in FormFields
    /\ formData' = [formData EXCEPT ![field] = value]
    /\ lastOp' = Op("handleInputChange", field, "", "")
    /\ UNCHANGED <<screen, restaurant, imageUri, loading, calls, dialog,
                   showMapPicker, tempLocation, lookups>>
    /\ UNCHANGED <<detailVars, locationVars, mounted, evaluation,
                   RESTAURANT_TYPES>>

\* pickImage, when the user grants the permission and picks an image
PickImage ==
    /\ FormReachable
    /\ imageUri' = "img1"
    /\ lastOp' = Op("pickImage", "", "picked", "")
    /\ UNCHANGED <<screen, restaurant, formData, loading, calls, dialog,
                   showMapPicker, tempLocation, lookups>>
    /\ UNCHANGED <<detailVars, locationVars, mounted, evaluation,
                   RESTAURANT_TYPES>>

\* the object openMapPicker(lat, lng) passes to setTempLocation
openMapPickerLocation(lat, lng) ==
    [latitude  |-> IF Falsy(lat) THEN DefaultLatitude ELSE lat[1],
     longitude |-> IF Falsy(lng) THEN DefaultLongitude ELSE lng[1]]

\* the "Pick on Map" button: openMapPicker(formData.latitude,
\* formData.longitude)
OpenMapPicker ==
    /\ screen = "add"
    /\ FormReachable
    /\ tempLocation' =
         <<openMapPickerLocation(formData.latitude, formData.longitude)>>
    /\ showMapPicker' = TRUE
    /\ lastOp' = Op("openMapPicker", "", "", "")
    /\ UNCHANGED <<screen, restaurant, formData, imageUri, loading, calls,
                   dialog, lookups>>
    /\ UNCHANGED <<detailVars, locationVars, mounted, evaluation,
                   RESTAURANT_TYPES>>

\* MapView onPress / Marker onDragEnd: setTempLocation(coordinate)
MapPress(coordinate) ==
    /\ MapPickerReachable
    /\ tempLocation' = <<coordinate>>
    /\ lastOp' = Op("setTempLocation", "", "", "")
    /\ UNCHANGED <<screen, restaurant, formData, imageUri, loading, calls,
                   dialog, showMapPicker, lookups>>
    /\ UNCHANGED <<detailVars, locationVars, mounted, evaluation,
                   RESTAURANT_TYPES>>

\* the map picker's close button and onRequestClose
CloseMapPicker ==
    /\ MapPickerReachable
    /\ showMapPicker' = FALSE
    /\ lastOp' = Op("closeMapPicker", "", "", "")
    /\ UNCHANGED <<screen, restaurant, formData, imageUri, loading, calls,
                   dialog, tempLocation, lookups>>
    /\ UNCHANGED <<detailVars, locationVars, mounted, evaluation,
                   RESTAURANT_TYPES>>

\* handleMapPickerSelect up to its await: the closure holds tempLocation and
\* formData.address of the render it was created in
HandleMapPickerSelect ==
    /\ MapPickerReachable
    /\ tempLocation # <<>>
    /\ Cardinality(lookups) < MaxLookups
    /\ lookups' = lookups \cup
         {[location |-> tempLocation[1], address |-> formData.address]}
    /\ lastOp' = Op("handleMapPickerSelect", "", "called", "")
    /\ UNCHANGED <<screen, restaurant, formData, imageUri, loading, calls,
                   dialog, showMapPicker, tempLocation>>
    /\ UNCHANGED <<detailVars, locationVars, mounted, evaluation,
                   RESTAURANT_TYPES>>

\* how a reverseGeocodeAsync promise settles: rejected ("throws"), resolved
\* with an empty array ("empty") or with an array whose first element is
\* `first` ("found")
GeocodeOutcomes ==
    {[kind |-> "throws", first |-> NoComponents],
     [kind |-> "empty", first |-> NoComponents]}
    \cup {[kind |-> "found", first |-> a] : a \in GeocodeResults}

\* the formData handleMapPickerSelect sets once reverseGeocodeAsync settled
mapPickerFormData(prev, l, result) ==
    IF result.kind = "throws"
    THEN [prev EXCEPT !.latitude = <<ToFixed6(l.location.latitude)>>,
                      !.longitude = <<ToFixed6(l.location.longitude)>>]
    ELSE [prev EXCEPT !.address = IF result.kind = "found"
                                  THEN formatAddress(result.first)
                                  ELSE l.address,
                      !.latitude = <<ToFixed6(l.location.latitude)>>,
                      !.longitude = <<ToFixed6(l.location.longitude)>>]

\* reverseGeocodeAsync of handleMapPickerSelect settles
MapLookupSettles(l, result) ==
    /\ l \in lookups
    /\ lookups' = lookups \ {l}
    /\ formData' = mapPickerFormData(formData, l, result)
    /\ showMapPicker' = FALSE
    /\ lastOp' = Op("mapPickerResult", "", result.kind, "Success")
    /\ UNCHANGED <<screen, restaurant, imageUri, loading, calls, dialog,
                   tempLocation>>
    /\ UNCHANGED <<detailVars, locationVars, mounted, evaluation,
                   RESTAURANT_TYPES>>

\* the header's back button: navigation.goBack() removes the screen, and
\* nothing in the component cancels the promises it is waiting for
GoBackForm ==
    /\ FormReachable
    /\ mounted' = FALSE
    /\ lastOp' = Op("goBack", "", "", "")
    /\ UNCHANGED formVars
    /\ UNCHANGED <<detailVars, locationVars, evaluation, RESTAURANT_TYPES>>

\* the coordinate test of getCurrentLocation, on the numbers of location.coords
gpsCoordinateRejected(latitude, longitude) ==
    \/ latitude = 0
    \/ longitude = 0
    \/ latitude < -MaxLatitude
    \/ latitude > MaxLatitude
    \/ longitude < -MaxLongitude
    \/ longitude > MaxLongitude

\* the message of getCurrentLocation's catch block for an error with `code`
locationErrorMessage(code) ==
    IF code = "E_LOCATION_TIMEOUT"
    THEN "Location request timed out. Please try again."
    ELSE IF code = "E_LOCATION_UNAVAILABLE"
    THEN "Location services unavailable. Please enable GPS."
    ELSE "Failed to get location. Please try again."

\* the "Get GPS Location" / "Update Location" button, disabled while
\* locationLoading: getCurrentLocation up to its first await
GetCurrentLocation ==
    /\ FormReachable
    /\ ~locationLoading
    /\ locationLoading' = TRUE
    /\ gps' = [stage |-> "permission", coords |-> NoCoords]
    /\ lastOp' = Op("getCurrentLocation", "", "called", "")
    /\ UNCHANGED formVars
    /\ UNCHANGED <<detailVars, mounted, evaluation, RESTAURANT_TYPES>>

\* requestForegroundPermissionsAsync settles: granted, denied or rejected
PermissionSettles(status) ==
    /\ gps.stage = "permission"
    /\ IF status = "granted"
       THEN /\ gps' = [stage |-> "position", coords |-> NoCoords]
            /\ lastOp' = Op("locationPermission", "", "granted", "")
            /\ UNCHANGED locationLoading
       ELSE /\ gps' = GpsIdle
            /\ locationLoading' = FALSE
            /\ lastOp' = Op("locationResult", "",
                            IF status = "denied" THEN "permissionDenied"
                            ELSE "error",
                            IF status = "denied" THEN "Permission Required"
                            ELSE locationErrorMessage(""))
    /\ UNCHANGED formVars
    /\ UNCHANGED <<detailVars, mounted, evaluation, RESTAURANT_TYPES>>

PositionFails_ClearsLocation(code) ==
    /\ gps.stage = "position"
    /\ gps' = GpsIdle
    /\ locationLoading' = FALSE
    /\ formData' = [formData EXCEPT !.address = <<>>, !.latitude = <<>>,
                                    !.longitude = <<>>]
    /\ lastOp' = Op("locationResult", "", "error", locationErrorMessage(code))
    /\ UNCHANGED <<screen, restaurant, imageUri, loading, calls, dialog,
                   showMapPicker, tempLocation, lookups>>
    /\ UNCHANGED <<detailVars, mounted, evaluation, RESTAURANT_TYPES>>

\* getCurrentPositionAsync rejects with an error whose code is `code`
PositionFails(code) ==
    /\ gps.stage = "position"
    /\ gps' = GpsIdle
    /\ locationLoading' = FALSE
    /\ lastOp' = Op("locationResult", "", "error", locationErrorMessage(code))
    /\ UNCHANGED formVars
    /\ UNCHANGED <<detailVars, mounted, evaluation, RESTAURANT_TYPES>>

\* getCurrentPositionAsync resolves: the coordinate test, then the call of
\* reverseGeocodeAsync; the Error thrown for rejected coordinates has no code
PositionSettles(coords) ==
    /\ gps.stage = "position"
    /\ IF gpsCoordinateRejected(coords.latitude, coords.longitude)
       THEN /\ gps' = GpsIdle
            /\ locationLoading' = FALSE
            /\ lastOp' = Op("locationResult", "", "invalidCoordinates",
                            locationErrorMessage(""))
       ELSE /\ gps' = [stage |-> "geocode", coords |-> coords]
            /\ lastOp' = Op("locationPosition", "", "accepted", "")
            /\ UNCHANGED locationLoading
    /\ UNCHANGED formVars
    /\ UNCHANGED <<detailVars, mounted, evaluation, RESTAURANT_TYPES>>

\* the edit screen's fullAddress: [streetNumber, street, city, region,
\* country].filter(Boolean).join(', ')
fullAddress(a) ==
    Join(SelectSeq(<<a.streetNumber, a.street, a.city, a.region, a.country>>,
                   LAMBDA part : part # <<>>))

gpsFormData_LatitudeOnly(prev, coords, result) ==
    [prev EXCEPT !.latitude = <<ToFixed6(coords.latitude)>>]

\* the formData getCurrentLocation sets once reverseGeocodeAsync settled
gpsFormData(prev, coords, result) ==
    IF result.kind = "found"
    THEN [prev EXCEPT
            !.address = IF screen = "add" THEN formatAddress(result.first)
                        ELSE IF fullAddress(result.first) # <<>>
                             THEN fullAddress(result.first)
                        ELSE prev.address,
            !.latitude = <<ToFixed6(coords.latitude)>>,
            !.longitude = <<ToFixed6(coords.longitude)>>]
    ELSE [prev EXCEPT !.latitude = <<ToFixed6(coords.latitude)>>,
                      !.longitude = <<ToFixed6(coords.longitude)>>]

\* reverseGeocodeAsync of getCurrentLocation settles.  The add screen's Alert
\* has a "Pick on Map" button whose callback holds the coordinates.
GpsGeocodeSettles(result) ==
    /\ gps.stage = "geocode"
    /\ formData' = gpsFormData(formData, gps.coords, result)
    /\ dialog' = IF screen = "add"
                 THEN [kind |-> "locationRetrieved", coords |-> gps.coords]
                 ELSE dialog
    /\ gps' = GpsIdle
    /\ locationLoading' = FALSE
    /\ lastOp' = Op("locationGeocode", "", result.kind,
                    IF screen = "add" THEN "Location Retrieved" ELSE "Success")
    /\ UNCHANGED <<screen, restaurant, imageUri, loading, calls,
                   showMapPicker, tempLocation, lookups>>
    /\ UNCHANGED <<detailVars, mounted, evaluation, RESTAURANT_TYPES>>

\* validateForm of the mounted screen
validateForm(fd) ==
    IF screen = "add" THEN validateFormAdd(fd) ELSE validateFormEdit(fd)

\* disabled={loading} of the submit button
SubmitDisabled == loading

\* the call handleSubmit makes first once validateForm returned true
FirstCall ==
    IF screen = "add"
    THEN [fn |-> "addRestaurant", data |-> RestaurantData(formData),
          image |-> imageUri, retry |-> FALSE]
    ELSE IF imageUri # Null /\ imageUri # restaurant.image
    THEN [fn |-> "uploadImage", data |-> UpdateData(formData),
          image |-> imageUri, retry |-> FALSE]
    ELSE [fn |-> "updateRestaurant", data |-> UpdateData(formData),
          image |-> Null, retry |-> FALSE]

\* handleSubmit up to its first await
HandleSubmit ==
    /\ FormReachable
    /\ ~SubmitDisabled
    /\ IF validateForm(formData) = "ok"
       THEN /\ loading' = TRUE
            /\ calls' = calls \cup {FirstCall}
            /\ lastOp' = Op("handleSubmit", "", "called", "")
       ELSE /\ lastOp' = Op("handleSubmit", "", "invalid",
                            validateForm(formData))
            /\ UNCHANGED <<loading, calls>>
    /\ UNCHANGED <<screen, restaurant, formData, imageUri, dialog,
                   showMapPicker, tempLocation, lookups>>
    /\ UNCHANGED <<detailVars, locationVars, mounted, evaluation,
                   RESTAURANT_TYPES>>

\* how a persistence promise settles
CallOutcomes == {"success", "imageUploadFailed", "failure", "rejected"}

\* a promise of handleSubmit settles and handleSubmit resumes: try, catch
\* and finally
CallSettles(c, outcome) ==
    /\ c \in calls
    /\ ~c.retry
    /\ outcome = "imageUploadFailed" => c.fn = "addRestaurant" /\ c.image # Null
    /\ outcome = "failure" => c.fn # "uploadImage"
    /\ IF c.fn = "uploadImage" /\ outcome = "success"
       THEN /\ calls' = (calls \ {c}) \cup
                 {[fn |-> "updateRestaurant", data |-> c.data,
                   image |-> "url", retry |-> FALSE]}
            /\ lastOp' = Op("uploadImageResult", "", outcome, "")
            /\ UNCHANGED <<loading, dialog>>
       ELSE /\ calls' = calls \ {c}
            /\ loading' = FALSE
            /\ dialog' =
                 CASE outcome = "success" /\ c.fn = "addRestaurant" ->
                        [kind |-> "added"]
                   [] outcome = "success" /\ c.fn = "updateRestaurant" ->
                        [kind |-> "updated"]
                   [] outcome = "imageUploadFailed" ->
                        [kind |-> "imageUploadFailed", data |-> c.data]
                   [] OTHER -> dialog
            /\ lastOp' = Op(c.fn \o "Result", "", outcome,
                            CASE outcome = "success" -> "Success"
                              [] outcome = "imageUploadFailed" ->
                                   "Image Upload Failed"
                              [] OTHER -> "Error")
    /\ UNCHANGED <<screen, restaurant, formData, imageUri, showMapPicker,
                   tempLocation, lookups>>
    /\ UNCHANGED <<detailVars, locationVars, mounted, evaluation,
                   RESTAURANT_TYPES>>

\* a button of the Alert on screen is pressed.  An Alert is a native
\* dialog: it outlives the screen that raised it, and so do its callbacks.
\* An Alert raised while another is on screen takes its place in the model,
\* as if the earlier one had been dismissed.
DialogChoose(button) ==
    /\ dialog # NoDialog
    /\ dialog' = NoDialog
    /\ CASE dialog.kind = "added" /\ button = "View My Restaurants" ->
              UNCHANGED <<formData, imageUri, loading, calls, showMapPicker,
                          tempLocation, mounted>>
         [] dialog.kind = "added" /\ button = "Add Another" ->
              /\ formData' = EmptyFormAdd
              /\ imageUri' = Null
              /\ UNCHANGED <<loading, calls, showMapPicker, tempLocation,
                             mounted>>
         [] dialog.kind = "updated" /\ button = "OK" ->
              /\ mounted' = FALSE
              /\ UNCHANGED <<formData, imageUri, loading, calls,
                             showMapPicker, tempLocation>>
         [] dialog.kind = "imageUploadFailed" /\ button = "Cancel" ->
              UNCHANGED <<formData, imageUri, loading, calls, showMapPicker,
                          tempLocation, mounted>>
         [] dialog.kind = "imageUploadFailed"
               /\ button = "Continue Without Image" ->
              /\ loading' = TRUE
              /\ calls' = calls \cup
                   {[fn |-> "addRestaurant", data |-> dialog.data,
                     image |-> Null, retry |-> TRUE]}
              /\ UNCHANGED <<formData, imageUri, showMapPicker, tempLocation,
                             mounted>>
         [] dialog.kind = "locationRetrieved" /\ button = "Use This Location" ->
              UNCHANGED <<formData, imageUri, loading, calls, showMapPicker,
                          tempLocation, mounted>>
         [] dialog.kind = "locationRetrieved" /\ button = "Pick on Map" ->
              /\ tempLocation' =
                   <<openMapPickerLocation(<<dialog.coords.latitude>>,
                                           <<dialog.coords.longitude>>)>>
              /\ showMapPicker' = TRUE
              /\ UNCHANGED <<formData, imageUri, loading, calls, mounted>>
         [] OTHER -> FALSE
    /\ lastOp' = Op("alertButton", button, dialog.kind, "")
    /\ UNCHANGED <<screen, restaurant, lookups>>
    /\ UNCHANGED <<detailVars, locationVars, evaluation, RESTAURANT_TYPES>>

\* the addRestaurant promise of 'Continue Without Image' settles: no try
\* around the await, so a rejection skips setLoading(false)
RetrySettles(c, outcome) ==
    /\ c \in calls
    /\ c.retry
    /\ outcome \in {"success", "failure", "rejected"}
    /\ calls' = calls \ {c}
    /\ loading' = IF outcome = "rejected" THEN loading ELSE FALSE
    /\ lastOp' = Op("addRestaurantRetryResult", "", outcome,
                    CASE outcome = "success" -> "Success"
                      [] outcome = "failure" -> "Error"
                      [] OTHER -> "")
    /\ UNCHANGED <<screen, restaurant, formData, imageUri, dialog,
                   showMapPicker, tempLocation, lookups>>
    /\ UNCHANGED <<detailVars, locationVars, mounted, evaluation,
                   RESTAURANT_TYPES>>

AlertButtons ==
    {"View My Restaurants", "Add Another", "OK", "Cancel",
     "Continue Without Image", "Use This Location", "Pick on Map"}

NextForm ==
    \/ GoBackForm
    \/ \E field \in DOMAIN FieldInputs :
          \E value \in FieldInputs[field] : HandleInputChange(field, value)
    \/ PickImage
    \/ OpenMapPicker
    \/ \E coordinate \in MapTaps : MapPress(coordinate)
    \/ CloseMapPicker
    \/ HandleMapPickerSelect
    \/ \E l \in lookups : \E result \in GeocodeOutcomes :
          MapLookupSettles(l, result)
    \/ HandleSubmit
    \/ \E c \in calls : \E outcome \in CallOutcomes : CallSettles(c, outcome)
    \/ \E button \in AlertButtons : DialogChoose(button)
    \/ \E c \in calls : \E outcome \in CallOutcomes : RetrySettles(c, outcome)

\* the add screen's formData once the user has typed the fields above the
\* address: handleInputChange with a value of FieldInputs for each of them
TypedFormAdd ==
    [EmptyFormAdd EXCEPT !.name = <<" ", "n">>, !.cuisine = <<"c">>,
                         !.type = StrCafe, !.description = <<"d">>,
                         !.phone = <<"1">>, !.email = StrEmail]

\* the location part of the form screens: the form is opened, or opened and
\* typed in down to the address
InitLocation ==
    /\ screen \in {"add", "edit"}
    /\ restaurant \in IF screen = "add" THEN {NoRestaurant} ELSE EditRestaurants
    /\ formData \in IF screen = "add" THEN {EmptyFormAdd, TypedFormAdd}
                     ELSE {InitialFormEdit(restaurant)}
    /\ imageUri = IF screen = "add" THEN Null ELSE restaurant.image
    /\ loading = FALSE
    /\ calls = {}
    /\ dialog = NoDialog
    /\ showMapPicker = FALSE
    /\ tempLocation = <<>>
    /\ lookups = {}
    /\ locationLoading = FALSE
    /\ gps = GpsIdle
    /\ mounted = TRUE

\* the form screens with the image and the fields above the address left
\* alone; without an image no upload fails and nothing is retried
NextLocation ==
    \/ GoBackForm
    \/ \E value \in FieldInputs.address : HandleInputChange("address", value)
    \/ GetCurrentLocation
    \/ \E status \in {"granted", "denied", "rejected"} :
          PermissionSettles(status)
    \/ \E code \in PositionErrors : PositionFails(code)
    \/ \E coords \in GpsReadings : PositionSettles(coords)
    \/ \E result \in GeocodeOutcomes : GpsGeocodeSettles(result)
    \/ OpenMapPicker
    \/ \E coordinate \in MapTaps : MapPress(coordinate)
    \/ CloseMapPicker
    \/ HandleMapPickerSelect
    \/ \E l \in lookups : \E result \in GeocodeOutcomes :
          MapLookupSettles(l, result)
    \/ HandleSubmit
    \/ \E c \in calls : \E outcome \in CallOutcomes : CallSettles(c, outcome)
    \/ \E button \in AlertButtons : DialogChoose(button)

\* the detail screen is not mounted
DetailIdle ==
    /\ cart = <<>>
    /\ user = SignedIn
    /\ inflight = EmptyBag
    /\ error = "none"
    /\ before = {}

\* no form screen is mounted
FormIdle ==
    /\ screen = "none"
    /\ restaurant = NoRestaurant
    /\ formData = EmptyFormAdd
    /\ imageUri = Null
    /\ loading = FALSE
    /\ calls = {}
    /\ dialog = NoDialog
    /\ showMapPicker = FALSE
    /\ tempLocation = <<>>
    /\ lookups = {}
    /\ locationLoading = FALSE
    /\ gps = GpsIdle

\* no pure function is under evaluation
NoEvaluation == [fn |-> "none"]

---------------------------------------------------------------------------
(* utils/restaurantTypes.js: the table of restaurant types and the         *)
(* functions over it.  The strings of the table are values; Characters     *)
(* gives the characters of each for the functions that look inside one.    *)
(* An absent (undefined) or empty type is the empty string.                *)

\* the array literal of RESTAURANT_TYPES
RestaurantTypesAtLoad ==
    <<[name |-> "Go Green", color |-> "#4CAF50",
       description |-> "Eco-friendly and sustainable dining"],
      [name |-> "Fine Dining", color |-> "#8E24AA",
       description |-> "Upscale restaurants with premium service"],
      [name |-> "Casual Dining", color |-> "#FF7043",
       description |-> "Relaxed atmosphere with table service"],
      [name |-> "Cafe", color |-> "#795548",
       description |-> "Coffee shops and light meals"],
      [name |-> "Fast Food", color |-> "#F44336",
       description |-> "Quick service restaurants"],
      [name |-> "Buffet", color |-> "#FF9800",
       description |-> "Self-service dining with variety"],
      [name |-> "Food Truck", color |-> "#2196F3",
       description |-> "Mobile food vendors"],
      [name |-> "Bakery", color |-> "#FFEB3B",
       description |-> "Fresh baked goods and pastries"],
      [name |-> "Dessert Shop", color |-> "#E91E63",
       description |-> "Sweets, ice cream, and desserts"],
      [name |-> "Bar", color |-> "#9C27B0",
       description |-> "Drinks and bar food"],
      [name |-> "Pub", color |-> "#607D8B",
       description |-> "Casual drinking establishment with food"]>>

\* the characters of the strings of the table and of the default color
Characters ==
    ("Go Green" :>
       <<"G", "o", " ", "G", "r", "e", "e", "n">>)
    @@ ("#4CAF50" :>
       <<"#", "4", "C", "A", "F", "5", "0">>)
    @@ ("Eco-friendly and sustainable dining" :>
       <<"E", "c", "o", "-", "f", "r", "i", "e", "n", "d", "l", "y", " ",
         "a", "n", "d", " ", "s", "u", "s", "t", "a", "i", "n", "a", "b",
         "l", "e", " ", "d", "i", "n", "i", "n", "g">>)
    @@ ("Fine Dining" :>
       <<"F", "i", "n", "e", " ", "D", "i", "n", "i", "n", "g">>)
    @@ ("#8E24AA" :>
       <<"#", "8", "E", "2", "4", "A", "A">>)
    @@ ("Upscale restaurants with premium service" :>
       <<"U", "p", "s", "c", "a", "l", "e", " ", "r", "e", "s", "t", "a",
         "u", "r", "a", "n", "t", "s", " ", "w", "i", "t", "h", " ", "p",
         "r", "e", "m", "i", "u", "m", " ", "s", "e", "r", "v", "i", "c",
         "e">>)
    @@ ("Casual Dining" :>
       <<"C", "a", "s", "u", "a", "l", " ", "D", "i", "n", "i", "n", "g">>)
    @@ ("#FF7043" :>
       <<"#", "F", "F", "7", "0", "4", "3">>)
    @@ ("Relaxed atmosphere with table service" :>
       <<"R", "e", "l", "a", "x", "e", "d", " ", "a", "t", "m", "o", "s",
         "p", "h", "e", "r", "e", " ", "w", "i", "t", "h", " ", "t", "a",
         "b", "l", "e", " ", "s", "e", "r", "v", "i", "c", "e">>)
    @@ ("Cafe" :>
       <<"C", "a", "f", "e">>)
    @@ ("#795548" :>
       <<"#", "7", "9", "5", "5", "4", "8">>)
    @@ ("Coffee shops and light meals" :>
       <<"C", "o", "f", "f", "e", "e", " ", "s", "h", "o", "p", "s", " ",
         "a", "n", "d", " ", "l", "i", "g", "h", "t", " ", "m", "e", "a",
         "l", "s">>)
    @@ ("Fast Food" :>
       <<"F", "a", "s", "t", " ", "F", "o", "o", "d">>)
    @@ ("#F44336" :>
       <<"#", "F", "4", "4", "3", "3", "6">>)
    @@ ("Quick service restaurants" :>
       <<"Q", "u", "i", "c", "k", " ", "s", "e", "r", "v", "i", "c", "e",
         " ", "r", "e", "s", "t", "a", "u", "r", "a", "n", "t", "s">>)
    @@ ("Buffet" :>
       <<"B", "u", "f", "f", "e", "t">>)
    @@ ("#FF9800" :>
       <<"#", "F", "F", "9", "8", "0", "0">>)
    @@ ("Self-service dining with variety" :>
       <<"S", "e", "l", "f", "-", "s", "e", "r", "v", "i", "c", "e", " ",
         "d", "i", "n", "i", "n", "g", " ", "w", "i", "t", "h", " ", "v",
         "a", "r", "i", "e", "t", "y">>)
    @@ ("Food Truck" :>
       <<"F", "o", "o", "d", " ", "T", "r", "u", "c", "k">>)
    @@ ("#2196F3" :>
       <<"#", "2", "1", "9", "6", "F", "3">>)
    @@ ("Mobile food vendors" :>
       <<"M", "o", "b", "i", "l", "e", " ", "f", "o", "o", "d", " ", "v",
         "e", "n", "d", "o", "r", "s">>)
    @@ ("Bakery" :>
       <<"B", "a", "k", "e", "r", "y">>)
    @@ ("#FFEB3B" :>
       <<"#", "F", "F", "E", "B", "3", "B">>)
    @@ ("Fresh baked goods and pastries" :>
       <<"F", "r", "e", "s", "h", " ", "b", "a", "k", "e", "d", " ", "g",
         "o", "o", "d", "s", " ", "a", "n", "d", " ", "p", "a", "s", "t",
         "r", "i", "e", "s">>)
    @@ ("Dessert Shop" :>
       <<"D", "e", "s", "s", "e", "r", "t", " ", "S", "h", "o", "p">>)
    @@ ("#E91E63" :>
       <<"#", "E", "9", "1", "E", "6", "3">>)
    @@ ("Sweets, ice cream, and desserts" :>
       <<"S", "w", "e", "e", "t", "s", ",", " ", "i", "c", "e", " ", "c",
         "r", "e", "a", "m", ",", " ", "a", "n", "d", " ", "d", "e", "s",
         "s", "e", "r", "t", "s">>)
    @@ ("Bar" :>
       <<"B", "a", "r">>)
    @@ ("#9C27B0" :>
       <<"#", "9", "C", "2", "7", "B", "0">>)
    @@ ("Drinks and bar food" :>
       <<"D", "r", "i", "n", "k", "s", " ", "a", "n", "d", " ", "b", "a",
         "r", " ", "f", "o", "o", "d">>)
    @@ ("Pub" :>
       <<"P", "u", "b">>)
    @@ ("#607D8B" :>
       <<"#", "6", "0", "7", "D", "8", "B">>)
    @@ ("Casual drinking establishment with food" :>
       <<"C", "a", "s", "u", "a", "l", " ", "d", "r", "i", "n", "k", "i",
         "n", "g", " ", "e", "s", "t", "a", "b", "l", "i", "s", "h", "m",
         "e", "n", "t", " ", "w", "i", "t", "h", " ", "f", "o", "o", "d">>)
    @@ ("#FF6B35" :>
       <<"#", "F", "F", "6", "B", "3", "5">>)

\* the '#FF6B35' of getRestaurantTypeColor
DefaultColor == "#FF6B35"

\* property names an object literal {} inherits from Object.prototype (two
\* of them): a lookup of such a name finds a function
ObjectPrototypeNames == {"constructor", "toString"}

\* obj[key] of an object literal whose own properties are the function
\* `own`: the own value, else the inherited function, else undefined
ObjectGet(own, key) ==
    IF key \in DOMAIN own THEN [kind |-> "own", value |-> own[key]]
    ELSE IF key \in ObjectPrototypeNames
    THEN [kind |-> "inherited", value |-> key]
    ELSE [kind |-> "undefined", value |-> key]

\* values a function of the module returns
JsString(s) == [kind |-> "string", value |-> s]
JsFunction(name) == [kind |-> "function", value |-> name]

\* the names of the entries of a table
TypeNames(types) == {types[i].name : i \in DOMAIN types}

\* the entry a later assignment acc[name] = ... leaves for a name
LastNamed(types, name) ==
    types[CHOOSE i \in DOMAIN types :
             /\ types[i].name = name
             /\ \A j \in DOMAIN types : types[j].name = name => j <= i]

\* RESTAURANT_TYPES.reduce((acc, type) => { acc[type.name] = type.color;
\* return acc }, {}), evaluated once when the module is loaded
RESTAURANT_TYPE_COLORS ==
    [n \in TypeNames(RestaurantTypesAtLoad) |->
        LastNamed(RestaurantTypesAtLoad, n).color]

\* RESTAURANT_TYPE_COLORS[type] || '#FF6B35': every color of the table is a
\* non-empty string and every inherited function is truthy
getRestaurantTypeColor(type) ==
    LET found == ObjectGet(RESTAURANT_TYPE_COLORS, type)
    IN  CASE found.kind = "own" -> JsString(found.value)
          [] found.kind = "inherited" -> JsFunction(found.value)
          [] OTHER -> JsString(DefaultColor)

\* type names the functions are called with: the names of the table, no
\* type, a name outside the table, a name of the table in another letter
\* case and the inherited names
TypeInputs ==
    TypeNames(RestaurantTypesAtLoad)
    \cup {"", "Diner", "cafe", "constructor", "toString"}

GetRestaurantTypeColor(type) ==
    /\ evaluation' = [fn |-> "getRestaurantTypeColor", state |-> "returned",
                      type |-> type, result |-> getRestaurantTypeColor(type)]
    /\ lastOp' = Op("getRestaurantTypeColor", "", "returned", "")
    /\ UNCHANGED <<detailVars, formVars, locationVars, mounted,
                   RESTAURANT_TYPES>>

\* RESTAURANT_TYPES.find(t => t.name === type) || null, null being <<>>
getRestaurantTypeInfo(type) ==
    LET found == SelectSeq(RESTAURANT_TYPES, LAMBDA t : t.name = type)
    IN  IF found = <<>> THEN <<>> ELSE <<Head(found)>>

GetRestaurantTypeInfo(type) ==
    /\ evaluation' = [fn |-> "getRestaurantTypeInfo", state |-> "returned",
                      type |-> type, result |-> getRestaurantTypeInfo(type)]
    /\ lastOp' = Op("getRestaurantTypeInfo", "", "returned", "")
    /\ UNCHANGED <<detailVars, formVars, locationVars, mounted,
                   RESTAURANT_TYPES>>

\* RESTAURANT_TYPES.some(t => t.name === type)
isValidRestaurantType(type) ==
    \E i \in DOMAIN RESTAURANT_TYPES : RESTAURANT_TYPES[i].name = type

IsValidRestaurantType(type) ==
    /\ evaluation' = [fn |-> "isValidRestaurantType", state |-> "returned",
                      type |-> type, result |-> isValidRestaurantType(type)]
    /\ lastOp' = Op("isValidRestaurantType", "", "returned", "")
    /\ UNCHANGED <<detailVars, formVars, locationVars, mounted,
                   RESTAURANT_TYPES>>

\* restaurants the functions are called with: two of one type, one of
\* another, one without type, one of a type outside the table and one whose
\* type names an inherited property
Restaurants ==
    {[id |-> "r1", type |-> "Cafe"], [id |-> "r2", type |-> "Cafe"],
     [id |-> "r3", type |-> "Bar"], [id |-> "r4", type |-> ""],
     [id |-> "r5", type |-> "Diner"],
     [id |-> "r6", type |-> "constructor"]}

\* the arrays of at most MaxRestaurants restaurants
RestaurantLists ==
    UNION {[1..n -> Restaurants] : n \in 0..MaxRestaurants}

\* types getRestaurantsByType is called with
FilterTypes == {"", "Cafe", "Diner"}

\* restaurants.filter(restaurant => restaurant.type === type)
getRestaurantsByType(restaurants, type) ==
    SelectSeq(restaurants, LAMBDA r : r.type = type)

GetRestaurantsByType(restaurants, type) ==
    /\ evaluation' = [fn |-> "getRestaurantsByType", state |-> "returned",
                      restaurants |-> restaurants, type |-> type,
                      result |-> getRestaurantsByType(restaurants, type)]
    /\ lastOp' = Op("getRestaurantsByType", "", "returned", "")
    /\ UNCHANGED <<detailVars, formVars, locationVars, mounted,
                   RESTAURANT_TYPES>>

\* the callback of the reduce of groupRestaurantsByType on the accumulator
\* acc (its own properties are acc.buckets): acc[type] of an inherited name
\* is a function, which is truthy and has no push, so the call throws
GroupStep(acc, r) ==
    LET type  == IF r.type = "" THEN "Other" ELSE r.type
        found == ObjectGet(acc.buckets, type)
    IN  IF acc.threw THEN acc
        ELSE CASE found.kind = "own" ->
                    [acc EXCEPT !.buckets[type] = Append(@, r)]
               [] found.kind = "inherited" -> [acc EXCEPT !.threw = TRUE]
               [] OTHER ->
                    [acc EXCEPT !.buckets = (type :> <<r>>) @@ @]

RECURSIVE GroupReduce(_, _)
GroupReduce(acc, restaurants) ==
    IF restaurants = <<>> THEN acc
    ELSE GroupReduce(GroupStep(acc, Head(restaurants)), Tail(restaurants))

\* restaurants.reduce(..., {}): the object returned, or the TypeError thrown
groupRestaurantsByType(restaurants) ==
    LET acc == GroupReduce([threw |-> FALSE, buckets |-> <<>>], restaurants)
    IN  IF acc.threw THEN [threw |-> TRUE, buckets |-> <<>>] ELSE acc

GroupRestaurantsByType(restaurants) ==
    /\ evaluation' = [fn |-> "groupRestaurantsByType", state |-> "returned",
                      restaurants |-> restaurants,
                      result |-> groupRestaurantsByType(restaurants)]
    /\ lastOp' = Op("groupRestaurantsByType", "", "returned", "")
    /\ UNCHANGED <<detailVars, formVars, locationVars, mounted,
                   RESTAURANT_TYPES>>

\* (x).toFixed(1) of x = count / total * 100, in tenths
ToFixed1(count, total) == (2000 * count + total) \div (2 * total)

\* stats as the first forEach of getRestaurantTypeStats leaves it
InitialStats ==
    [n \in TypeNames(RESTAURANT_TYPES) |->
        [count |-> 0,
         percentage |-> [kind |-> "number", tenths |-> 0],
         color |-> LastNamed(RESTAURANT_TYPES, n).color]]

\* the callback of restaurants.forEach: stats[restaurant.type] of an
\* inherited name is a function, so the test passes, count++ sets a property
\* of that function and totalWithType is incremented
CountStep(acc, r) ==
    LET found == ObjectGet(acc.stats, r.type)
    IN  IF r.type = "" \/ found.kind = "undefined" THEN acc
        ELSE IF found.kind = "own"
        THEN [acc EXCEPT !.stats[r.type].count = @ + 1,
                         !.totalWithType = @ + 1]
        ELSE [acc EXCEPT !.totalWithType = @ + 1]

RECURSIVE CountReduce(_, _)
CountReduce(acc, restaurants) ==
    IF restaurants = <<>> THEN acc
    ELSE CountReduce(CountStep(acc, Head(restaurants)), Tail(restaurants))

\* the percentage of a type stays the number 0 unless totalWithType > 0,
\* and is a string otherwise
getRestaurantTypeStats(restaurants) ==
    LET counted == CountReduce([stats |-> InitialStats, totalWithType |-> 0],
                               restaurants)
        total   == counted.totalWithType
    IN  [stats |->
           [n \in DOMAIN counted.stats |->
              IF total > 0
              THEN [counted.stats[n] EXCEPT
                      !.percentage =
                         [kind |-> "string",
                          tenths |-> ToFixed1(counted.stats[n].count, total)]]
              ELSE counted.stats[n]],
         totalWithType |-> total,
         totalRestaurants |-> Len(restaurants),
         withoutType |-> Len(restaurants) - total]

GetRestaurantTypeStats(restaurants) ==
    /\ evaluation' = [fn |-> "getRestaurantTypeStats", state |-> "returned",
                      restaurants |-> restaurants,
                      result |-> getRestaurantTypeStats(restaurants)]
    /\ lastOp' = Op("getRestaurantTypeStats", "", "returned", "")
    /\ UNCHANGED <<detailVars, formVars, locationVars, mounted,
                   RESTAURANT_TYPES>>

UpperLetters ==
    <<"A", "B", "C", "D", "E", "F", "G", "H", "I", "J", "K", "L", "M", "N",
      "O", "P", "Q", "R", "S", "T", "U", "V", "W", "X", "Y", "Z">>

LowerLetters ==
    <<"a", "b", "c", "d", "e", "f", "g", "h", "i", "j", "k", "l", "m", "n",
      "o", "p", "q", "r", "s", "t", "u", "v", "w", "x", "y", "z">>

\* String.prototype.toLowerCase on the characters of the model
toLowerCase(s) ==
    [i \in DOMAIN s |->
        IF \E k \in DOMAIN UpperLetters : UpperLetters[k] = s[i]
        THEN LowerLetters[CHOOSE k \in DOMAIN UpperLetters :
                             UpperLetters[k] = s[i]]
        ELSE s[i]]

\* the collation rank of a character of a type name: the blank before the
\* letters, the letters in alphabetical order whatever their case
CollationRank(ch) ==
    IF ch = " " THEN 0
    ELSE CHOOSE k \in DOMAIN LowerLetters :
            LowerLetters[k] = toLowerCase(<<ch>>)[1]

\* a.localeCompare(b) < 0 for the characters of two type names
RECURSIVE LocaleBefore(_, _)
LocaleBefore(a, b) ==
    IF b = <<>> THEN FALSE
    ELSE IF a = <<>> THEN TRUE
    ELSE IF CollationRank(Head(a)) # CollationRank(Head(b))
    THEN CollationRank(Head(a)) < CollationRank(Head(b))
    ELSE LocaleBefore(Tail(a), Tail(b))

\* array.sort(comparator) with the comparator of getSortedRestaurantTypes
SortByName(array, ascending) ==
    SortSeq(array,
            LAMBDA a, b :
              IF ascending
              THEN LocaleBefore(Characters[a.name], Characters[b.name])
              ELSE LocaleBefore(Characters[b.name], Characters[a.name]))

getSortedRestaurantTypes_InPlace(ascending) ==
    [result |-> SortByName(RESTAURANT_TYPES, ascending),
     types  |-> SortByName(RESTAURANT_TYPES, ascending)]

\* [...RESTAURANT_TYPES].sort(...): sort orders the array it is called on,
\* which is the copy made by the spread; `types` is RESTAURANT_TYPES after
\* the call
getSortedRestaurantTypes(ascending) ==
    [result |-> SortByName(RESTAURANT_TYPES, ascending),
     types  |-> RESTAURANT_TYPES]

GetSortedRestaurantTypes(ascending) ==
    /\ evaluation' = [fn |-> "getSortedRestaurantTypes",
                      state |-> "returned", ascending |-> ascending,
                      result |-> getSortedRestaurantTypes(ascending).result]
    /\ RESTAURANT_TYPES' = getSortedRestaurantTypes(ascending).types
    /\ lastOp' = Op("getSortedRestaurantTypes", "", "returned", "")
    /\ UNCHANGED <<detailVars, formVars, locationVars, mounted>>

HexDigits ==
    <<"0", "1", "2", "3", "4", "5", "6", "7", "8", "9", "A", "B", "C", "D",
      "E", "F">>

\* parseInt(color.slice(from, from + 2), 16) for the characters of a color
ParseHexPair(color, from) ==
    LET digit(ch) == (CHOOSE k \in DOMAIN HexDigits : HexDigits[k] = ch) - 1
    IN  16 * digit(color[from + 1]) + digit(color[from + 2])

\* getComplementaryColor: luminance > 0.5, times 255000; a color that is an
\* inherited function has no slice, so the call throws
getComplementaryColor(type) ==
    LET color == getRestaurantTypeColor(type)
        r == ParseHexPair(Characters[color.value], 1)
        g == ParseHexPair(Characters[color.value], 3)
        b == ParseHexPair(Characters[color.value], 5)
    IN  IF color.kind = "function"
        THEN [kind |-> "TypeError", value |-> ""]
        ELSE IF 299 * r + 587 * g + 114 * b > 127500
        THEN JsString("#000")
        ELSE JsString("#fff")

GetComplementaryColor(type) ==
    /\ evaluation' = [fn |-> "getComplementaryColor", state |-> "returned",
                      type |-> type, result |-> getComplementaryColor(type)]
    /\ lastOp' = Op("getComplementaryColor", "", "returned", "")
    /\ UNCHANGED <<detailVars, formVars, locationVars, mounted,
                   RESTAURANT_TYPES>>

\* s.includes(sub)
includes(s, sub) ==
    \E k \in 0..(Len(s) - Len(sub)) : SubSeq(s, k + 1, k + Len(sub)) = sub

searchRestaurantTypes_NameOnly(query) ==
    IF query = <<>> \/ Trim(query) = <<>> THEN RESTAURANT_TYPES
    ELSE LET searchTerm == Trim(toLowerCase(query))
         IN  SelectSeq(RESTAURANT_TYPES,
                       LAMBDA type :
                         includes(toLowerCase(Characters[type.name]),
                                  searchTerm))

\* searchRestaurantTypes: the table itself for a falsy or blank query, else
\* the entries whose lower-cased name or description includes the
\* lower-cased, trimmed query
searchRestaurantTypes(query) ==
    IF query = <<>> \/ Trim(query) = <<>> THEN RESTAURANT_TYPES
    ELSE LET searchTerm == Trim(toLowerCase(query))
         IN  SelectSeq(RESTAURANT_TYPES,
                       LAMBDA type :
                         \/ includes(toLowerCase(Characters[type.name]),
                                     searchTerm)
                         \/ includes(
                              toLowerCase(Characters[type.description]),
                              searchTerm))

StrFine == <<"f", "i", "n", "e">>

\* queries the search is called with, as characters: absent or empty,
\* blank, in lower, upper and mixed case, padded with blanks, with a blank
\* inside, matching names only, descriptions only, both, or nothing
QueryInputs ==
    {<<>>, <<" ">>, <<" ", " ">>, StrFine, <<"F", "I", "N", "E">>,
     <<" ", "F", "i", "n", "e", " ">>, <<"d", "i", "n">>,
     <<"f", "o", "o", "d">>, <<"W", "i", "t", "h">>, <<"t", " ", "F">>,
     <<"e">>, <<"z", "z">>, <<"c", "a", "f", "e">>, <<"B", "a", "r">>,
     <<"s", ",">>}

SearchRestaurantTypes(query) ==
    /\ evaluation' = [fn |-> "searchRestaurantTypes", state |-> "returned",
                      query |-> query,
                      result |-> searchRestaurantTypes(query)]
    /\ lastOp' = Op("searchRestaurantTypes", "", "returned", "")
    /\ UNCHANGED <<detailVars, formVars, locationVars, mounted,
                   RESTAURANT_TYPES>>

\* a function of restaurantTypes.js is called
NextRegistry ==
    \/ \E type \in TypeInputs : GetRestaurantTypeColor(type)
    \/ \E type \in TypeInputs : GetRestaurantTypeInfo(type)
    \/ \E type \in TypeInputs : IsValidRestaurantType(type)
    \/ \E restaurants \in RestaurantLists : \E type \in FilterTypes :
          GetRestaurantsByType(restaurants, type)
    \/ \E restaurants \in RestaurantLists :
          GroupRestaurantsByType(restaurants)
    \/ \E restaurants \in RestaurantLists :
          GetRestaurantTypeStats(restaurants)
    \/ \E ascending \in BOOLEAN : GetSortedRestaurantTypes(ascending)
    \/ \E type \in TypeInputs : GetComplementaryColor(type)
    \/ \E query \in QueryInputs : SearchRestaurantTypes(query)

---------------------------------------------------------------------------
(* The pure functions of the screens, applied to arguments drawn from      *)
(* bounded sets: no screen is mounted, `evaluation` holds the call.        *)

\* the shortest plus code, Q9J7+M2
StrPlusCode == <<"Q", "9", "J", "7", "+", "M", "2">>

\* formattedAddress as the geocoder supplies it: absent, a plus code alone,
\* a plus code followed by two components, a run of empty components, and
\* three components
FormattedAddresses ==
    {<<>>,
     StrPlusCode,
     StrPlusCode \o <<",", " ", "Q", ",", " ", "L">>,
     <<",", " ", ",", " ", ",", " ", "L">>,
     <<"Q", "q", ",", " ", "L", ",", " ", "P">>}

\* the objects reverseGeocodeAsync may put first in its result
AddressInputs ==
    [name             : {<<>>, <<"a">>, <<"a", "+">>, <<"L">>, StrPlusCode},
     streetNumber     : {<<>>, <<"1">>},
     street           : {<<>>, <<"a">>},
     subregion        : {<<>>, <<"L">>, <<"P">>},
     city             : {<<>>, <<"L">>},
     region           : {<<>>, <<"P">>},
     country          : {<<>>, <<"K">>, <<"L">>},
     formattedAddress : FormattedAddresses,
     district         : {<<>>, <<"P">>}]

\* latitudes and longitudes in 1e-7 degrees, <<>> for an absent one: the
\* bounds, one step beyond them, zero and an ordinary value
LatitudeInputs ==
    {<<>>, <<-900000001>>, <<-900000000>>, <<0>>, <<315204000>>,
     <<900000000>>, <<900000001>>}

LongitudeInputs ==
    {<<>>, <<-1800000001>>, <<-1800000000>>, <<0>>, <<743587000>>,
     <<1800000000>>, <<1800000001>>}

\* a function is about to be applied
InitEvaluation ==
    \/ evaluation \in {[fn |-> "formatAddress", state |-> "called", arg |-> x] :
                          x \in {<<>>} \cup {<<a>> : a \in AddressInputs}}
    \/ evaluation \in {[fn |-> "coordinateTest", state |-> "called",
                          latitude |-> lat, longitude |-> lng] :
                          lat \in LatitudeInputs, lng \in LongitudeInputs}

\* formatAddress(addressData) runs; the parts of steps 1 to 7 are kept
EvaluateFormatAddress ==
    /\ evaluation.fn = "formatAddress"
    /\ evaluation.state = "called"
    /\ evaluation' =
         [fn |-> "formatAddress", state |-> "returned", arg |-> evaluation.arg,
          result |-> formatAddressOrNull(evaluation.arg),
          parts |-> IF evaluation.arg = <<>> THEN <<>>
                    ELSE AddressParts(evaluation.arg[1]),
          nameAppended |-> IF evaluation.arg = <<>> THEN FALSE
                           ELSE nameAppended(evaluation.arg[1])]
    /\ lastOp' = Op("formatAddress", "", "returned", "")
    /\ UNCHANGED <<detailVars, formVars, locationVars, mounted,
                   RESTAURANT_TYPES>>

\* the coordinate tests run on a pair: the test of getCurrentLocation on
\* location.coords (an absent number is falsy), validateForm of either
\* screen on a form that is complete but for its coordinates
EvaluateCoordinateTest ==
    /\ evaluation.fn = "coordinateTest"
    /\ evaluation.state = "called"
    /\ LET lat  == evaluation.latitude
           lng  == evaluation.longitude
           form == [TypedFormAdd EXCEPT !.address = <<"s", "t">>,
                                        !.latitude = lat, !.longitude = lng]
       IN  evaluation' =
             [fn |-> "coordinateTest", state |-> "returned",
              latitude |-> lat, longitude |-> lng,
              gpsRejected |-> IF lat = <<>> \/ lng = <<>> THEN TRUE
                              ELSE gpsCoordinateRejected(lat[1], lng[1]),
              add |-> validateFormAdd(form),
              edit |-> validateFormEdit(form)]
    /\ lastOp' = Op("coordinateTest", "", "returned", "")
    /\ UNCHANGED <<detailVars, formVars, locationVars, mounted,
                   RESTAURANT_TYPES>>

NextFunctions ==
    \/ EvaluateFormatAddress
    \/ EvaluateCoordinateTest

\* no screen is mounted and a function is about to be applied
InitFunctions ==
    /\ DetailIdle
    /\ FormIdle
    /\ mounted = FALSE
    /\ lastOp = Op("init", "", "", "")
    /\ InitEvaluation
    /\ RESTAURANT_TYPES = RestaurantTypesAtLoad

\* the detail screen is mounted
InitDetailScreen ==
    /\ InitDetail
    /\ FormIdle
    /\ evaluation = NoEvaluation
    /\ RESTAURANT_TYPES = RestaurantTypesAtLoad

\* a form screen is mounted
InitFormScreen ==
    /\ DetailIdle
    /\ InitForm
    /\ lastOp = Op("init", "", "", "")
    /\ evaluation = NoEvaluation
    /\ RESTAURANT_TYPES = RestaurantTypesAtLoad

\* a form screen is mounted, seen from its location controls
InitLocationScreen ==
    /\ DetailIdle
    /\ InitLocation
    /\ lastOp = Op("init", "", "", "")
    /\ evaluation = NoEvaluation
    /\ RESTAURANT_TYPES = RestaurantTypesAtLoad

SpecDetail == InitDetailScreen /\ [][NextDetail]_vars

SpecForm == InitFormScreen /\ [][NextForm]_vars

SpecLocation == InitLocationScreen /\ [][NextLocation]_vars

SpecFunctions == InitFunctions /\ [][NextFunctions]_vars

\* restaurantTypes.js is loaded and no screen is mounted
InitRegistry ==
    /\ DetailIdle
    /\ FormIdle
    /\ mounted = FALSE
    /\ lastOp = Op("init", "", "", "")
    /\ evaluation = NoEvaluation
    /\ RESTAURANT_TYPES = RestaurantTypesAtLoad

SpecRegistry == InitRegistry /\ [][NextRegistry]_vars

---------------------------------------------------------------------------
(* Properties of the order cart (checked under SpecDetail).                *)

\* sum of the values of a function over its domain
RECURSIVE SumFn(_)
SumFn(f) ==
    IF DOMAIN f = {} THEN 0
    ELSE LET x == CHOOSE x \in DOMAIN f : TRUE
         IN  f[x] + SumFn([y \in DOMAIN f \ {x} |-> f[y]])

\* position of the line of itemId in a cart that holds exactly one
LineIndex(c, itemId) == CHOOSE k \in DOMAIN c : c[k].id = itemId

\* C1: removeFromCart(itemId), called when the cart holds no line with that
\* id (the empty cart included), raises no error and leaves the cart as it
\* was.
C1_RemoveUnknownIsNoOp ==
    [][(lastOp'.op = "removeFromCart" /\ lastOp'.id \notin LineIds(cart))
         => (cart' = cart /\ error' = "none")]_vars

\* C2: after any sequence of adds and removes from the empty cart, the cart
\* holds at most one line per item id and every line's quantity is an
\* integer >= 1.
C2_OneLinePerIdPositiveQty ==
    /\ \A i, j \in DOMAIN cart : cart[i].id = cart[j].id => i = j
    /\ \A i \in DOMAIN cart : cart[i].quantity \in Nat \ {0}

\* a remove deleted one line and left another line whose quantity is 2
C2_Witness ==
    /\ lastOp.op = "removeFromCart"
    /\ lastOp.id \notin LineIds(cart)
    /\ Len(cart) = 1
    /\ cart[1].quantity = 2

\* C3: getTotalPrice is the sum over the current lines of price * quantity
\* and getTotalCalories the sum over the current lines of
\* (calories or 0) * quantity, a line without calorie data contributing 0.
C3_TotalsAreSumsOfLines ==
    /\ getTotalPrice(cart) =
         SumFn([i \in DOMAIN cart |-> cart[i].price * cart[i].quantity])
    /\ getTotalCalories(cart) =
         SumFn([i \in DOMAIN cart |->
                  IF cart[i].calories = <<>> THEN 0
                  ELSE cart[i].calories[1] * cart[i].quantity])

\* after a remove, two lines are left, one of them without calorie data
C3_Witness ==
    /\ lastOp.op = "removeFromCart"
    /\ Len(cart) = 2
    /\ \E i \in DOMAIN cart : cart[i].calories = <<>>
    /\ getTotalPrice(cart) = 8
    /\ getTotalCalories(cart) = 2

\* C4: addToCart(item) adds exactly 1 to the quantity of the line of
\* item.id when there is one, leaving the number of lines and every other
\* line unchanged; otherwise it appends exactly one line of quantity 1 at
\* the end and leaves every existing line unchanged.
C4_AddIncrementsOrAppends ==
    [][(lastOp'.op = "addToCart" /\ lastOp'.outcome # "unavailable") =>
        LET itemId == lastOp'.id IN
        IF itemId \in LineIds(cart)
        THEN /\ Len(cart') = Len(cart)
             /\ \A i \in DOMAIN cart :
                   IF cart[i].id = itemId
                   THEN cart'[i] = [cart[i] EXCEPT !.quantity = @ + 1]
                   ELSE cart'[i] = cart[i]
        ELSE /\ Len(cart') = Len(cart) + 1
             /\ SubSeq(cart', 1, Len(cart)) = cart
             /\ cart'[Len(cart')].id = itemId
             /\ cart'[Len(cart')].quantity = 1]_vars

\* an add incremented the first of two lines
C4_Witness ==
    /\ lastOp.op = "addToCart"
    /\ Len(cart) = 2
    /\ cart[1].id = lastOp.id
    /\ cart[1].quantity = 2

\* C5: removeFromCart(itemId) on a cart holding a line for itemId removes
\* the line when its quantity is 1 and otherwise lowers its quantity by
\* exactly 1; every other line keeps its quantity and relative position.
C5_RemoveDeletesOrDecrements ==
    [][(lastOp'.op = "removeFromCart" /\ lastOp'.id \in LineIds(cart)) =>
        LET k == LineIndex(cart, lastOp'.id) IN
        IF cart[k].quantity = 1
        THEN cart' = SubSeq(cart, 1, k - 1) \o SubSeq(cart, k + 1, Len(cart))
        ELSE cart' = [cart EXCEPT ![k].quantity = @ - 1]]_vars

\* a remove lowered the quantity of the first of two lines
C5_Witness ==
    /\ lastOp.op = "removeFromCart"
    /\ Len(cart) = 2
    /\ cart[1].id = lastOp.id
    /\ cart[2].id # lastOp.id

\* C6: the lines of the cart appear in the order in which they were
\* created by a first add; changing a quantity never reorders lines and a
\* line created later never precedes a line created earlier.
C6_FirstAddOrder ==
    \A i, j \in DOMAIN cart :
        i < j => <<cart[i].id, cart[j].id>> \in before

\* the line of m1 was created after the line of m2 and a quantity was
\* lowered since
C6_Witness ==
    /\ lastOp.op = "removeFromCart"
    /\ Len(cart) = 2
    /\ cart[1].id = "m2"
    /\ cart[2].id = "m1"

\* C7: the cart is reset to empty when, and only when, placeOrder reports
\* success: a successful result empties it, a failed result and
\* handlePlaceOrder itself leave it unchanged, and no other step empties a
\* cart except a remove of its last unit.
C7_ResetIffOrderSucceeded ==
    [][/\ (lastOp'.op = "placeOrderResult" /\ lastOp'.outcome = "success")
            => cart' = <<>>
       /\ (lastOp'.op = "placeOrderResult" /\ lastOp'.outcome # "success")
            => cart' = cart
       /\ lastOp'.op = "handlePlaceOrder" => cart' = cart
       /\ (cart # <<>> /\ cart' = <<>>) =>
            \/ lastOp'.op = "placeOrderResult" /\ lastOp'.outcome = "success"
            \/ /\ lastOp'.op = "removeFromCart"
               /\ Len(cart) = 1
               /\ cart[1].quantity = 1]_vars

\* an order succeeded and emptied the cart while another is in flight
C7_Witness ==
    /\ lastOp.op = "placeOrderResult"
    /\ lastOp.outcome = "success"
    /\ cart = <<>>
    /\ inflight # EmptyBag

\* C8: placeOrder is never invoked with an empty items list nor without a
\* signed-in user; handlePlaceOrder on an empty cart or without a user
\* makes no placeOrder call and leaves the cart unchanged.
C8_NoOrderWithoutItemsOrUser ==
    [][/\ \A o \in BagToSet(inflight') :
            CopiesIn(o, inflight') > CopiesIn(o, inflight)
               => (o.items # <<>> /\ user # Null)
       /\ (lastOp'.op = "handlePlaceOrder" /\ (user = Null \/ cart = <<>>))
            => (inflight' = inflight /\ cart' = cart)]_vars

\* handlePlaceOrder ran on an empty cart with a user signed in
C8_Witness ==
    /\ lastOp.op = "handlePlaceOrder"
    /\ user # Null
    /\ cart = <<>>

\* C9: addToCart is never invoked for a menu item whose isAvailable is
\* false: no cart line belongs to an unavailable item.
C9_NoLineForUnavailableItem ==
    \A i \in DOMAIN cart : ItemById(cart[i].id).isAvailable

\* the "+" of the unavailable item was pressed on a non-empty cart
C9_Witness ==
    /\ lastOp.op = "addToCart"
    /\ ~ItemById(lastOp.id).isAvailable
    /\ cart # <<>>

---------------------------------------------------------------------------
(* Properties of the restaurant forms (checked under SpecForm).            *)

\* the draft a persistence call stores: the edit screen's updateData
\* carries no type, so the stored restaurant keeps the type it had
DraftOf(c) ==
    [name |-> c.data.name, cuisine |-> c.data.cuisine,
     type |-> IF "type" \in DOMAIN c.data THEN c.data.type
              ELSE restaurant.type,
     description |-> c.data.description, phone |-> c.data.phone,
     email |-> c.data.email, address |-> c.data.location.address,
     latitude |-> c.data.location.latitude,
     longitude |-> c.data.location.longitude]

RequiredFields ==
    {"name", "cuisine", "type", "description", "phone", "email", "address"}

\* latitude and longitude are both present and in range
ValidCoordinate(latitude, longitude) ==
    /\ latitude # <<>>
    /\ longitude # <<>>
    /\ latitude[1] >= -MaxLatitude
    /\ latitude[1] <= MaxLatitude
    /\ longitude[1] >= -MaxLongitude
    /\ longitude[1] <= MaxLongitude

\* C10: addRestaurant and updateRestaurant are invoked only with a draft
\* whose required fields (name, cuisine, type, description, phone, email,
\* address) are non-empty after trimming and whose latitude and longitude
\* form a valid coordinate; when validation fails no persistence call is
\* made and the form data is unchanged.
C10_PersistOnlyValidDraft ==
    [][/\ \A c \in calls' \ calls :
            c.fn \in {"addRestaurant", "updateRestaurant"} =>
               /\ \A f \in RequiredFields : Trim(DraftOf(c)[f]) # <<>>
               /\ ValidCoordinate(DraftOf(c).latitude, DraftOf(c).longitude)
       /\ (lastOp'.op = "handleSubmit" /\ lastOp'.outcome = "invalid")
            => (calls' = calls /\ formData' = formData)]_vars

---------------------------------------------------------------------------
(* Properties of the location controls of the form screens (checked under  *)
(* SpecLocation).                                                          *)

\* an optional number is a number within [-max, max]
PresentInRange(n, max) == n # <<>> /\ n[1] >= -max /\ n[1] <= max

C13_LocationErrorKeepsForm ==
    [][lastOp'.op = "locationResult"
         => /\ formData'.address = formData.address
            /\ formData'.latitude = formData.latitude
            /\ formData'.longitude = formData.longitude
            /\ lastOp'.alert # ""
            /\ gps.stage # "idle"]_vars

\* a position request timed out on a form that already holds a location
C13_Witness ==
    /\ lastOp.op = "locationResult"
    /\ lastOp.alert = "Location request timed out. Please try again."
    /\ formData.latitude # <<>>
    /\ formData.address # <<>>

\* C14: when reverse geocoding throws or finds nothing, the coordinate that
\* was obtained (GPS or map picker) is stored, the address stays as it was,
\* and the message shown is not an error.
C14_GeocodingFailureKeepsAddress ==
    [][/\ (lastOp'.op = "locationGeocode"
            /\ lastOp'.outcome \in {"throws", "empty"})
          => /\ formData'.latitude = <<ToFixed6(gps.coords.latitude)>>
             /\ formData'.longitude = <<ToFixed6(gps.coords.longitude)>>
             /\ formData'.address = formData.address
             /\ lastOp'.alert \in {"Location Retrieved", "Success"}
       /\ (lastOp'.op = "mapPickerResult"
            /\ lastOp'.outcome \in {"throws", "empty"})
          => /\ \E l \in lookups \ lookups' :
                   /\ formData'.latitude = <<ToFixed6(l.location.latitude)>>
                   /\ formData'.longitude = <<ToFixed6(l.location.longitude)>>
             /\ formData'.address = formData.address
             /\ lastOp'.alert = "Success"]_vars

---------------------------------------------------------------------------
(* Properties of the pure functions (checked under SpecFunctions).         *)

\* C12: a pair with latitude in [-90, 90] and longitude in [-180, 180],
\* zero included, passes the coordinate test of getCurrentLocation and
\* validateForm of both screens; an absent or out-of-range one is rejected.
C12_InRangeCoordinateAccepted ==
    (evaluation.fn = "coordinateTest" /\ evaluation.state = "returned")
      => LET valid == ValidCoordinate(evaluation.latitude, evaluation.longitude)
         IN  /\ evaluation.gpsRejected = ~valid
             /\ (evaluation.add = "ok") = valid
             /\ (evaluation.edit = "ok") = valid

\* a formatAddress call has returned
FormatAddressReturned ==
    evaluation.fn = "formatAddress" /\ evaluation.state = "returned"

\* C17: formatAddress never returns the empty string, whatever its input,
\* and returns "Location detected" for an absent result and for a result
\* without any component.
C17_FormatAddressNeverEmpty ==
    FormatAddressReturned
      => /\ evaluation.result # <<>>
         /\ (evaluation.arg = <<>> \/ evaluation.arg = <<NoComponents>>)
              => evaluation.result = LocationDetected

\* s holds a match of [A-Z0-9]{4}\+[A-Z0-9]{2,}
MatchesPlusCode(s) == \E i \in 1..Len(s) : PlusCodeMatch(Drop(s, i - 1)) > 0

\* C18: step 1 pushes name exactly when name is present, holds no plus
\* code, and differs from city and from subregion.
C18_NameAppendedUnlessPlusCode ==
    (FormatAddressReturned /\ evaluation.arg # <<>>)
      => LET a == evaluation.arg[1]
         IN  evaluation.nameAppended =
               (/\ a.name # <<>>
                /\ ~MatchesPlusCode(a.name)
                /\ a.name # a.city
                /\ a.name # a.subregion)

\* C19: no two of the parts pushed by steps 1 to 7 are equal.
C19_PartsAreDistinct ==
    FormatAddressReturned
      => \A i, j \in DOMAIN evaluation.parts :
            evaluation.parts[i] = evaluation.parts[j] => i = j

\* C20, as claimed: with 3 parts or more the result does not depend on
\* formattedAddress; with fewer it is the cleaned formattedAddress when
\* that is strictly longer than the joined parts, the joined parts otherwise.
C20_FallbackAsClaimed ==
    (FormatAddressReturned /\ evaluation.arg # <<>>)
      => LET a       == evaluation.arg[1]
             joined  == Join(evaluation.parts)
             cleaned == cleanedAddress(a.formattedAddress)
         IN  IF Len(evaluation.parts) >= 3
             THEN evaluation.result =
                    formatAddress([a EXCEPT !.formattedAddress = <<>>])
             ELSE evaluation.result =
                    IF a.formattedAddress # <<>> /\ Len(cleaned) > Len(joined)
                    THEN cleaned ELSE joined

\* the final clean-up of formatAddress and its sentinel
FinalCleanup(address) ==
    IF CleanCommas(address) # <<>> THEN CleanCommas(address)
    ELSE LocationDetected

\* C20, amended: as claimed, but the string chosen (cleaned formattedAddress
\* or joined parts) goes through the final clean-up, and "Location detected"
\* is returned when nothing is left of it.
C20_FallbackThenFinalCleanup ==
    (FormatAddressReturned /\ evaluation.arg # <<>>)
      => LET a       == evaluation.arg[1]
             joined  == Join(evaluation.parts)
             cleaned == cleanedAddress(a.formattedAddress)
         IN  IF Len(evaluation.parts) >= 3
             THEN evaluation.result =
                    formatAddress([a EXCEPT !.formattedAddress = <<>>])
             ELSE evaluation.result =
                    FinalCleanup(IF /\ a.formattedAddress # <<>>
                                    /\ Len(cleaned) > Len(joined)
                                 THEN cleaned ELSE joined)

\* the cleaned formattedAddress still starts with a comma, is longer than
\* the joined parts, and loses the comma in the final clean-up
C20_Witness ==
    /\ FormatAddressReturned
    /\ evaluation.arg # <<>>
    /\ Len(evaluation.parts) = 1
    /\ cleanedAddress(evaluation.arg[1].formattedAddress) = <<",", " ", "L">>
    /\ evaluation.result = <<"L">>

---------------------------------------------------------------------------
(* Properties of teardown and of failed submissions (checked under         *)
(* SpecDetail; they are stated for the three screens).                     *)

\* C15: once the screen is torn down, a result that arrives for it is
\* discarded: no step changes the screen's state (cart, form data, image,
\* loading flags, map picker) or shows a message.
C15_ResultAfterTeardownDiscarded ==
    [][~mounted
         => /\ cart' = cart
            /\ formData' = formData
            /\ imageUri' = imageUri
            /\ loading' = loading
            /\ locationLoading' = locationLoading
            /\ showMapPicker' = showMapPicker
            /\ tempLocation' = tempLocation
            /\ lastOp'.alert = ""]_vars

\* C16: a submission that fails (the persistence function reports failure
\* or raises) ends with a message and starts no call; a persistence call is
\* started only by handlePlaceOrder, handleSubmit, an Alert button, or the
\* continuation of a successful image upload.
C16_FailedSubmissionShownNotResent ==
    [][/\ (lastOp'.op = "placeOrderResult"
            /\ lastOp'.outcome \in {"failure", "rejected"})
          => /\ lastOp'.alert # ""
             /\ BagCardinality(inflight') < BagCardinality(inflight)
       /\ (lastOp'.op \in {"addRestaurantResult", "updateRestaurantResult",
                           "addRestaurantRetryResult"}
            /\ lastOp'.outcome \in {"failure", "rejected"})
          => /\ lastOp'.alert # ""
             /\ calls' \subseteq calls
       /\ BagCardinality(inflight') > BagCardinality(inflight)
          => lastOp'.op = "handlePlaceOrder"
       /\ calls' \ calls # {}
          => lastOp'.op \in {"handleSubmit", "alertButton",
                             "uploadImageResult"}]_vars

---------------------------------------------------------------------------
(* Properties of the restaurant type table (checked under SpecRegistry).   *)

\* the entry of the table as loaded whose name is `name`
EntryNamed(name) ==
    RestaurantTypesAtLoad[CHOOSE i \in DOMAIN RestaurantTypesAtLoad :
                             RestaurantTypesAtLoad[i].name = name]

\* C21: getRestaurantTypeColor(name) returns the color of the table for a
\* name that is an entry of RESTAURANT_TYPES and the default "#FF6B35" for
\* every other input, and never fails.
C21_ColorOfEntryElseDefault ==
    evaluation.fn = "getRestaurantTypeColor"
      => evaluation.result =
           JsString(IF evaluation.type \in TypeNames(RestaurantTypesAtLoad)
                    THEN EntryNamed(evaluation.type).color
                    ELSE DefaultColor)

\* the registry names and "Other"
GroupKeys == TypeNames(RestaurantTypesAtLoad) \cup {"Other"}

\* C22: groupRestaurantsByType places every restaurant whose type is missing
\* or is no name of the table in the "Other" bucket, so every key of the
\* result is a name of the table or "Other".
C22_UnknownTypesUnderOther ==
    evaluation.fn = "groupRestaurantsByType"
      => LET buckets == evaluation.result.buckets
             input   == evaluation.restaurants
         IN  /\ ~evaluation.result.threw
             /\ DOMAIN buckets \subseteq GroupKeys
             /\ \A i \in DOMAIN input :
                  input[i].type \notin TypeNames(RestaurantTypesAtLoad)
                    => /\ "Other" \in DOMAIN buckets
                       /\ \E k \in DOMAIN buckets["Other"] :
                            buckets["Other"][k] = input[i]

\* the number of positions of a sequence that hold x
Occurrences(s, x) == Cardinality({i \in DOMAIN s : s[i] = x})

\* sub is s with some positions left out
RECURSIVE IsSubsequence(_, _)
IsSubsequence(sub, s) ==
    IF sub = <<>> THEN TRUE
    ELSE IF s = <<>> THEN FALSE
    ELSE IF Head(sub) = Head(s) THEN IsSubsequence(Tail(sub), Tail(s))
    ELSE IsSubsequence(sub, Tail(s))

\* C23: flattening the buckets of groupRestaurantsByType reproduces the
\* multiset of the restaurants given: each restaurant is in exactly one
\* bucket, the bucket sizes sum to the length of the input, and each bucket
\* keeps the input order.
C23_GroupingIsAPartition ==
    evaluation.fn = "groupRestaurantsByType"
      => LET buckets == evaluation.result.buckets
             input   == evaluation.restaurants
         IN  /\ ~evaluation.result.threw
             /\ \A r \in Restaurants :
                  /\ Cardinality({k \in DOMAIN buckets :
                                    Occurrences(buckets[k], r) > 0})
                       = IF Occurrences(input, r) > 0 THEN 1 ELSE 0
                  /\ \A k \in DOMAIN buckets :
                       Occurrences(buckets[k], r) \in
                         {0, Occurrences(input, r)}
             /\ SumFn([k \in DOMAIN buckets |-> Len(buckets[k])])
                  = Len(input)
             /\ \A k \in DOMAIN buckets : IsSubsequence(buckets[k], input)

\* C24: getRestaurantTypeStats: the count of a type is the number of
\* restaurants of that type, totalWithType is the sum of the counts,
\* withoutType = totalRestaurants - totalWithType, and the percentage of a
\* type is count / totalWithType * 100 to one decimal, or 0 for every type
\* when totalWithType is 0.
C24_StatsCountKnownTypes ==
    evaluation.fn = "getRestaurantTypeStats"
      => LET result == evaluation.result
             input  == evaluation.restaurants
             total  == result.totalWithType
         IN  /\ DOMAIN result.stats = TypeNames(RestaurantTypesAtLoad)
             /\ \A n \in DOMAIN result.stats :
                  /\ result.stats[n].count =
                       Cardinality({i \in DOMAIN input : input[i].type = n})
                  /\ IF total = 0
                     THEN result.stats[n].percentage.tenths = 0
                     ELSE LET d == result.stats[n].percentage.tenths * total
                                      - 1000 * result.stats[n].count
                          IN  -total <= 2 * d /\ 2 * d <= total
             /\ total = SumFn([n \in DOMAIN result.stats |->
                                  result.stats[n].count])
             /\ result.totalRestaurants = Len(input)
             /\ result.withoutType = result.totalRestaurants - total

\* a and b are the same character or the two cases of one letter
SameLetter(a, b) ==
    \/ a = b
    \/ \E k \in DOMAIN UpperLetters :
          {a, b} = {UpperLetters[k], LowerLetters[k]}

\* sub occurs in s at some offset, letter case ignored
ContainsIgnoringCase(s, sub) ==
    \E k \in 0..(Len(s) - Len(sub)) :
       \A j \in 1..Len(sub) : SameLetter(s[k + j], sub[j])

C26_TableNeverMutated ==
    /\ RESTAURANT_TYPES = RestaurantTypesAtLoad
    /\ Len(RESTAURANT_TYPES) = 11

\* the table has been sorted in descending order: the result starts with
\* Pub and the table still starts with Go Green
C26_Witness ==
    /\ evaluation.fn = "getSortedRestaurantTypes"
    /\ ~evaluation.ascending
    /\ evaluation.result[1].name = "Pub"
    /\ evaluation.result[11].name = "Bakery"
    /\ RESTAURANT_TYPES[1].name = "Go Green"

---------------------------------------------------------------------------
(* Properties of the calls in flight.                                      *)

\* C27: in the restaurant detail screen at most one placeOrder call is in
\* flight at any time: while a submission awaits its result a second
\* handlePlaceOrder cannot start, so the same cart contents are never
\* submitted as two orders (checked under SpecDetail).
C27_OnePlaceOrderInFlight == BagCardinality(inflight) <= 1

\* the order whose promise settles in this step
SettledOrder ==
    CHOOSE o \in BagToSet(inflight) :
       CopiesIn(o, inflight') < CopiesIn(o, inflight)

\* C28: when the cart is reset after a successful placeOrder, the lines
\* discarded are exactly the lines submitted in that order: no line added
\* to or removed from the cart while the call was in flight is dropped
\* without having been ordered (checked under SpecDetail).
C28_ResetDiscardsWhatWasOrdered ==
    [][(lastOp'.op = "placeOrderResult" /\ lastOp'.outcome = "success")
         => cart = SettledOrder.items]_vars

\* C29: in the add screen the loading flag is true only while an
\* addRestaurant call is in flight, on every path of handleSubmit, the
\* 'Continue Without Image' resubmission included, however that call ends:
\* the flag does not stay true, and the submit button disabled, once no call
\* is left that could reset it (checked under SpecForm).
C29_LoadingOnlyWhileCallInFlight ==
    (screen = "add" /\ loading)
      => \E c \in calls : c.fn = "addRestaurant"

\* C30: in the add screen a location confirmed in the map picker is not
\* overwritten by the result of a GPS request that was started earlier and
\* completes later: once handleMapPickerSelect has stored a coordinate and
\* an address, only a location action started after it changes them
\* (checked under SpecLocation).  The GPS request that is in flight when the
\* map picker stores its location was started before; the formula takes the
\* step in which its result arrives next.
C30_MapPickerLocationNotOverwritten ==
    [][(/\ screen = "add"
        /\ lastOp.op = "mapPickerResult"
        /\ gps.stage # "idle"
        /\ lastOp'.op = "locationGeocode")
         => /\ formData'.latitude = formData.latitude
            /\ formData'.longitude = formData.longitude
            /\ formData'.address = formData.address]_vars

====
